---- MODULE Spec2Model ----
(***************************************************************************)
(* Model of the news analyser's message pipeline:                          *)
(*   - MonitoringService (src/monitoring_service.py): the poll cycle, the  *)
(*     per-channel coroutine _process_channel and the per-message tasks    *)
(*     _process_single_message, with the channel cursor last_message_id;   *)
(*   - TelegramMonitor (src/services/telegram_monitor.py): the fetch of    *)
(*     new messages from the channel source;                               *)
(*   - AsyncPostgresManager (src/services/db/pg_manager.py): the store;    *)
(*   - OllamaAnalyzer and LRUCacheWithTTL (src/services/llm/analyzer.py):  *)
(*     the cached analysis.                                                *)
(* Coroutines run on one asyncio event loop: every action below is the     *)
(* code between two awaits of one coroutine.                               *)
(***************************************************************************)
EXTENDS Integers, Sequences, FiniteSets, TLC

\* ------------------------------------------------------------------ bounds
\* Highest message id a channel source hands out.
MaxId == 3


\* settings.TELETHON_MESSAGE_LIMIT, a configured value in [1, 500]; the model
\* runs with a page of two messages.
TELETHON_MESSAGE_LIMIT == 2

\* settings.MAX_CONCURRENT_REQUESTS: slots of MonitoringService.semaphore.
MAX_CONCURRENT_REQUESTS == 2

Chans == {"c1", "c2"}
Ids == 1..MaxId
\* the source of the second channel holds a single message
MaxIdOf(c) == IF c = "c1" THEN MaxId ELSE 1
Msgs == Chans \X Ids

\* "no value": a local not yet assigned, a row that does not exist.
None == -1

VARIABLES
    top,              \* source: latest message id posted in each channel
    last_message_id,  \* store, table channels: the cursor of each channel
    messages,         \* store, table messages: rows keyed (channel_id, message_id)
    analyses,         \* store, table analyses: keyed message_id alone; the value
                      \* names the channel whose message text was analysed
    chanPc,           \* position of each _process_channel coroutine: "start",
                      \* "seed", "fetch", "gather", then "done" (returned) or
                      \* "error" (left through the except of lines 173-177)
    last_local,       \* _process_channel's local last_message_id (None: not read)
    batch,            \* _process_channel's local messages, ascending ids
    task,             \* per message of the batch: position and returned result
                      \* ("True", "False", or "pending" while the task runs)
    semaphore,        \* free slots of MonitoringService.semaphore
    poison,           \* messages whose text the model never answers parseably
    fetchedEver,      \* history: messages get_new_messages has ever returned
    anWritten         \* history: messages whose row and analysis were both written

pollVars == <<top, last_message_id, messages, analyses, chanPc, last_local, batch,
              task, semaphore, poison, fetchedEver, anWritten>>

\* state of the OllamaAnalyzer and of the calls made to it
VARIABLES _model_checked, analysis_cache, timestamps, now, llm_semaphore, caller,
          chat, lastDone, concurrent

anVars == <<_model_checked, analysis_cache, timestamps, now, llm_semaphore, caller,
            chat, lastDone, concurrent>>

\* clean_and_validate_hashtags applied to a list and to its own output
VARIABLES raw_hashtags, cleaned_hashtags

cleanVars == <<raw_hashtags, cleaned_hashtags>>

\* the response of the model being handled by analyze_message, what the
\* call returns for it and what it puts into the cache
VARIABLES response_raw, returned, cache_put

respVars == <<response_raw, returned, cache_put>>

\* the notification manager: its queue, the subscribers and user_settings
\* tables it reads, the coroutines inside send_analysis_result, the analyses
\* handed to it so far and the calls of bot.send_message so far
VARIABLES notification_queue, is_active, user_settings, dispatch, results, sends

notVars == <<notification_queue, is_active, user_settings, dispatch, results, sends>>

\* the quiet hours check of should_send_notification: the two settings, the
\* time of the clock and what the check decides
VARIABLES quiet_hours_start, quiet_hours_end, clock, quiet

quietVars == <<quiet_hours_start, quiet_hours_end, clock, quiet>>

\* the tables messages and analyses of the store by their rows, and the
\* last call of save_message or save_analysis
VARIABLES messages_rows, analyses_rows, last_call

storeVars == <<messages_rows, analyses_rows, last_call>>

\* an LRUCacheWithTTL object, the time of time.time(), the keys in the
\* order of their last use and the last operation on the object
VARIABLES lru, lru_time, recency, lru_last

lruVars == <<lru, lru_time, recency, lru_last>>

\* a call of a function wrapped by retry_with_backoff: the RetryConfig and
\* the exception types of the decorator, the loop variable, where the
\* wrapper is, the outcome of every call of the function, every delay the
\* wrapper slept and how the wrapper ended
VARIABLES retry_config, retry_exceptions, attempt, retry_pc, func_calls, sleeps,
          last_exception, wrapper_outcome

retryVars == <<retry_config, retry_exceptions, attempt, retry_pc, func_calls, sleeps,
               last_exception, wrapper_outcome>>

\* the components that are studied on their own
auxVars == <<quietVars, storeVars, lruVars, retryVars>>

\* what a step of the polling loop, and a step of the analyzer, leaves alone
nonPollVars == <<anVars, cleanVars, respVars, notVars, auxVars>>

nonAnVars == <<pollVars, cleanVars, respVars, notVars, auxVars>>

nonNotVars == <<pollVars, anVars, cleanVars, respVars, auxVars>>

\* the polling loop, the analyzer and the notification manager
coreVars == <<pollVars, anVars, cleanVars, respVars, notVars>>

\* what a step of a component studied on its own leaves alone
nonQuietVars == <<coreVars, storeVars, lruVars, retryVars>>

nonStoreVars == <<coreVars, quietVars, lruVars, retryVars>>

nonLruVars == <<coreVars, quietVars, storeVars, retryVars>>

nonRetryVars == <<coreVars, quietVars, storeVars, lruVars>>

vars == <<coreVars, auxVars>>

\* ------------------------------------------------------------ pure helpers
Max(S) == CHOOSE x \in S : \A y \in S : y <= x

Range(s) == {s[i] : i \in 1..Len(s)}

Reverse(s) == [i \in 1..Len(s) |-> s[Len(s) + 1 - i]]

RECURSIVE SelectIds(_, _)
\* the ids of s, in order, that lie above min_id (the loop's filter)
SelectIds(s, min_id) ==
    IF s = <<>> THEN <<>>
    ELSE IF Head(s) > min_id THEN <<Head(s)>> \o SelectIds(Tail(s), min_id)
         ELSE SelectIds(Tail(s), min_id)

\* Telethon's client.get_messages(entity, limit, min_id): the messages with id
\* above min_id, newest first, cut after limit entries.
ClientGetMessages(c, limit, min_id) ==
    LET n == top[c] - min_id
        k == IF n < 0 THEN 0 ELSE IF n < limit THEN n ELSE limit
    IN [i \in 1..k |-> top[c] + 1 - i]

\* TelegramMonitor.get_new_messages on a successful fetch: reversed, filtered
\* by id > last_message_id, then sorted by id.
get_new_messages(c, last) ==
    LET msgs == ClientGetMessages(c, TELETHON_MESSAGE_LIMIT, last)
        converted == SelectIds(Reverse(msgs), last)
    IN SortSeq(converted, LAMBDA a, b : a < b)

\* TelegramMonitor.get_initial_last_message_id on a successful fetch.
get_initial_last_message_id(c) == top[c]

NoTask == [pc |-> "none", result |-> "pending"]
NewTask == [pc |-> "wait", result |-> "pending"]

\* results of asyncio.gather, in the order of the tasks
Results(c) == [i \in 1..Len(batch[c]) |-> task[c][batch[c][i]].result]

\* mutant: every result of the gather counts as a success
SuccessfulCountsAll(c) == Len(batch[c])

Successful(c) == Cardinality({i \in 1..Len(batch[c]) : Results(c)[i] = "True"})

\* mutant: no result of the gather counts as a failure
FailedNever(c) == 0

Failed(c) == Len(batch[c]) - Successful(c)

\* mutant: the id of the first message of the batch
FirstProcessedId(c) == batch[c][1]

\* the id _process_channel writes as the new cursor
MaxProcessedId(c) == Max(Range(batch[c]))

\* ============================================================ OllamaAnalyzer
\* settings.DEFAULT_CACHE_SIZE: max_size of analysis_cache, scaled down so
\* that a put of a second text evicts.
DEFAULT_CACHE_SIZE == 1

\* settings.DEFAULT_CACHE_TTL_SECONDS: ttl_seconds of analysis_cache, scaled
\* down so that an entry expires within MaxTime.
DEFAULT_CACHE_TTL_SECONDS == 1

\* time.time() runs from 0 to MaxTime
MaxTime == 2

\* RetryConfig(max_attempts=3) of the retry_with_backoff decorator of
\* analyze_message: the wrapper calls the function again only when the
\* function raised, and analyze_message returns None from its own
\* "except Exception", so every call makes one attempt.
max_attempts == 3

\* coroutines that call analyze_message (message tasks, bot handlers)
Callers == {1, 2}

\* settings.MAX_TEXT_LENGTH_FOR_ANALYSIS, scaled down to the texts of the model
MAX_TEXT_LENGTH_FOR_ANALYSIS == 2

\* message texts, as sequences of characters: two texts longer than
\* MAX_TEXT_LENGTH_FOR_ANALYSIS with the same first characters
Texts == {<<"x", "y", "1">>, <<"x", "y", "2">>}

\* hex digests
Digests == {"d1", "d2"}

\* hashlib.md5(text.encode("utf-8")).hexdigest(): a digest of the whole
\* text, different for the texts of the model
md5(text) ==
    IF text = <<"x", "y", "1">> THEN "d1" ELSE "d2"

\* truncate_text(text, max_len)
truncate_text(text, max_len) ==
    IF Len(text) <= max_len THEN text
    ELSE SubSeq(text, 1, max_len) \o <<".", ".", ".">>

\* the part of the prompt of _get_optimized_prompt that depends on the message
_get_optimized_prompt(message_text) ==
    truncate_text(message_text, MAX_TEXT_LENGTH_FOR_ANALYSIS)

_get_cache_key(text) == md5(text)

\* values of NewsAnalysis
Analyses == {"a1", "a2"}

\* what llm_json.ainvoke returns: the JSON of an analysis, JSON without one
\* of the fields, or text that is not JSON
RawResponses == {"json_a1", "json_a2", "json_partial", "not_json"}

\* json.loads(response_str)
json_loads(raw) ==
    IF raw = "json_a1" THEN "a1"
    ELSE IF raw = "json_a2" THEN "a2"
    ELSE IF raw = "json_partial" THEN "partial"
    ELSE "JSONDecodeError"

\* NewsAnalysis(**data): pydantic raises when a field is missing
NewsAnalysis(data) == IF data \in Analyses THEN data ELSE "ValidationError"

\* what analyze_message returns for the raw response: an analysis, or
\* "None" on the JSONDecodeError branch and on the except branch
AnalysisOf(raw) ==
    IF json_loads(raw) = "JSONDecodeError" THEN "None"
    ELSE IF NewsAnalysis(json_loads(raw)) = "ValidationError" THEN "None"
    ELSE NewsAnalysis(json_loads(raw))

\* ---------------------------------------------------------- LRUCacheWithTTL
\* self.cache is an OrderedDict: a sequence of entries, oldest first
CacheKeys(c) == {c[i].key : i \in 1..Len(c)}

CacheEntry(c, key) == c[CHOOSE i \in 1..Len(c) : c[i].key = key]

\* OrderedDict.pop(key, None)
_remove(c, key) == SelectSeq(c, LAMBDA e : e.key # key)

\* OrderedDict.move_to_end(key)
move_to_end(c, key) == Append(_remove(c, key), CacheEntry(c, key))

\* get: the entry is older than ttl_seconds
Expired(key) ==
    /\ key \in CacheKeys(analysis_cache)
    /\ now - timestamps[key] > DEFAULT_CACHE_TTL_SECONDS

\* mutant: get finds no entry
GetNeverHits(key) == FALSE

\* get returns the value of the entry
GetHits(key) == key \in CacheKeys(analysis_cache) /\ ~Expired(key)

\* the cache after get(key)
CacheAfterGet(key) ==
    IF Expired(key) THEN _remove(analysis_cache, key)
    ELSE IF GetHits(key) THEN move_to_end(analysis_cache, key)
    ELSE analysis_cache

\* the key that put(key, value) evicts, if any
OldestKey(key) ==
    IF key \notin CacheKeys(analysis_cache) /\ Len(analysis_cache) >= DEFAULT_CACHE_SIZE
    THEN {analysis_cache[1].key}
    ELSE {}

\* the cache after put(key, value)
CacheAfterPut(key, value) ==
    LET kept == IF key \in CacheKeys(analysis_cache)
                THEN _remove(analysis_cache, key)
                ELSE IF Len(analysis_cache) >= DEFAULT_CACHE_SIZE
                     THEN Tail(analysis_cache)
                     ELSE analysis_cache
    IN Append(kept, [key |-> key, value |-> value])

TimestampsAfterPut(key) ==
    [d \in Digests |-> IF d = key THEN now
                       ELSE IF d \in OldestKey(key) THEN None
                       ELSE timestamps[d]]

\* ------------------------------------------------------------ call records
\* the outcome of the last completed call for a text: its result and whether
\* it invoked the model; NoCall when there was none, or when the entry of the
\* text left the cache (eviction, expiry, clear) after it
NoCall == [result |-> "no_call", invoked |-> 0]

IdleCaller == [pc |-> "idle", text |-> <<"x", "y", "1">>, result |-> "pending", invoked |-> 0,
               prior |-> NoCall]

InFlight(k) == caller[k].pc \in {"check_model", "test_call", "acquire", "invoke"}

\* lastDone after the entries of the digests in gone left the cache
Forget(ld, gone) == [t \in Texts |-> IF md5(t) \in gone THEN NoCall ELSE ld[t]]

AnalyzerInit ==
    /\ _model_checked = FALSE
    /\ analysis_cache = <<>>
    /\ timestamps = [d \in Digests |-> None]
    /\ now = 0
    /\ llm_semaphore = MAX_CONCURRENT_REQUESTS
    /\ caller = [k \in Callers |-> IdleCaller]
    /\ chat = "idle"
    /\ lastDone = [t \in Texts |-> NoCall]
    /\ concurrent = [k \in Callers |-> FALSE]

\* ----------------------------------------------------------- analyze_message
\* cache_key, analysis_cache.get, and on a miss "async with self.semaphore":
\* runs without suspension up to the return of the cached value, the wait for
\* a slot, or the await of llm_json.ainvoke
Lookup(k, text) ==
    LET key == _get_cache_key(text)
        prior == IF Expired(key) THEN NoCall ELSE lastDone[text]
    IN
    /\ analysis_cache' = CacheAfterGet(key)
    /\ timestamps' = IF Expired(key) THEN [timestamps EXCEPT ![key] = None]
                     ELSE timestamps
    /\ IF GetHits(key)
       THEN /\ caller' = [caller EXCEPT ![k] =
                  [pc |-> "done", text |-> text,
                   result |-> CacheEntry(analysis_cache, key).value,
                   invoked |-> 0, prior |-> prior]]
            /\ lastDone' = [lastDone EXCEPT ![text] =
                  [result |-> CacheEntry(analysis_cache, key).value, invoked |-> 0]]
            /\ UNCHANGED llm_semaphore
       ELSE /\ lastDone' = IF Expired(key) THEN Forget(lastDone, {key}) ELSE lastDone
            /\ IF llm_semaphore > 0
               THEN /\ llm_semaphore' = llm_semaphore - 1
                    /\ caller' = [caller EXCEPT ![k] =
                          [pc |-> "invoke", text |-> text, result |-> "pending",
                           invoked |-> 1, prior |-> prior]]
               ELSE /\ UNCHANGED llm_semaphore
                    /\ caller' = [caller EXCEPT ![k] =
                          [pc |-> "acquire", text |-> text, result |-> "pending",
                           invoked |-> 0, prior |-> prior]]

\* a coroutine calls analyze_message(text); the first call awaits
\* _check_model_availability
Begin(k, text) ==
    /\ caller[k].pc \in {"idle", "done"}
    /\ concurrent' = [j \in Callers |->
          IF j = k THEN \E o \in Callers \ {k} : InFlight(o) /\ caller[o].text = text
          ELSE IF InFlight(j) /\ caller[j].text = text THEN TRUE
          ELSE concurrent[j]]
    /\ IF _model_checked
       THEN Lookup(k, text)
       ELSE /\ caller' = [caller EXCEPT ![k] =
                  [pc |-> "check_model", text |-> text, result |-> "pending",
                   invoked |-> 0, prior |-> NoCall]]
            /\ UNCHANGED <<analysis_cache, timestamps, llm_semaphore, lastDone>>
    /\ UNCHANGED <<_model_checked, now, chat, nonAnVars>>

\* _check_model_availability: ollama.pull returned and the test request
\* llm_json.ainvoke("Test") is sent, outside "async with self.semaphore"
PullReturned(k) ==
    /\ caller[k].pc = "check_model"
    /\ caller' = [caller EXCEPT ![k].pc = "test_call"]
    /\ UNCHANGED <<_model_checked, analysis_cache, timestamps, now, llm_semaphore,
                   chat, lastDone, concurrent, nonAnVars>>

\* _check_model_availability returned: the pull raised, or the test request
\* returned or raised (it catches its own exceptions)
ModelChecked(k) ==
    /\ caller[k].pc \in {"check_model", "test_call"}
    /\ _model_checked' = TRUE
    /\ Lookup(k, caller[k].text)
    /\ UNCHANGED <<now, chat, concurrent, nonAnVars>>

\* a slot of self.semaphore became free for a waiting call
AcquireSlot(k) ==
    /\ caller[k].pc = "acquire"
    /\ llm_semaphore > 0
    /\ llm_semaphore' = llm_semaphore - 1
    /\ caller' = [caller EXCEPT ![k].pc = "invoke", ![k].invoked = 1]
    /\ UNCHANGED <<_model_checked, analysis_cache, timestamps, now, chat, lastDone,
                   concurrent, nonAnVars>>

\* llm_json.ainvoke returned raw: the response is parsed; an analysis is put
\* into the cache and returned, otherwise None is returned
AnalysisReturned(k, raw) ==
    LET text == caller[k].text
        key == _get_cache_key(text)
        analysis == AnalysisOf(raw)
    IN
    /\ caller[k].pc = "invoke"
    /\ IF analysis \in Analyses
       THEN /\ analysis_cache' = CacheAfterPut(key, analysis)
            /\ timestamps' = TimestampsAfterPut(key)
            /\ lastDone' = [Forget(lastDone, OldestKey(key)) EXCEPT ![text] =
                               [result |-> analysis, invoked |-> 1]]
       ELSE /\ lastDone' = [lastDone EXCEPT ![text] = [result |-> "None", invoked |-> 1]]
            /\ UNCHANGED <<analysis_cache, timestamps>>
    /\ caller' = [caller EXCEPT ![k].pc = "done", ![k].result = analysis]
    /\ llm_semaphore' = llm_semaphore + 1
    /\ UNCHANGED <<_model_checked, now, chat, concurrent, nonAnVars>>

\* llm_json.ainvoke raised: the except branch returns None
AnalysisRaises(k) ==
    /\ caller[k].pc = "invoke"
    /\ lastDone' = [lastDone EXCEPT ![caller[k].text] = [result |-> "None", invoked |-> 1]]
    /\ caller' = [caller EXCEPT ![k].pc = "done", ![k].result = "None"]
    /\ llm_semaphore' = llm_semaphore + 1
    /\ UNCHANGED <<_model_checked, analysis_cache, timestamps, now, chat, concurrent,
                   nonAnVars>>

\* clear_cache
ClearCache ==
    /\ analysis_cache # <<>>
    /\ analysis_cache' = <<>>
    /\ timestamps' = [d \in Digests |-> None]
    /\ lastDone' = Forget(lastDone, CacheKeys(analysis_cache))
    /\ UNCHANGED <<_model_checked, now, llm_semaphore, caller, chat, concurrent,
                   nonAnVars>>

\* time passes
Tick ==
    /\ now < MaxTime
    /\ now' = now + 1
    /\ UNCHANGED <<_model_checked, analysis_cache, timestamps, llm_semaphore, caller,
                   chat, lastDone, concurrent, nonAnVars>>

\* --------------------------------------------------------- get_chat_response
\* after the model check: "async with self.semaphore", then the stream
ChatEnter ==
    IF llm_semaphore > 0
    THEN llm_semaphore' = llm_semaphore - 1 /\ chat' = "stream"
    ELSE UNCHANGED llm_semaphore /\ chat' = "acquire"

ChatBegin ==
    /\ chat = "idle"
    /\ IF _model_checked THEN ChatEnter
       ELSE chat' = "check_model" /\ UNCHANGED llm_semaphore
    /\ UNCHANGED <<_model_checked, analysis_cache, timestamps, now, caller, lastDone,
                   concurrent, nonAnVars>>

ChatPullReturned ==
    /\ chat = "check_model"
    /\ chat' = "test_call"
    /\ UNCHANGED <<_model_checked, analysis_cache, timestamps, now, llm_semaphore,
                   caller, lastDone, concurrent, nonAnVars>>

ChatModelChecked ==
    /\ chat \in {"check_model", "test_call"}
    /\ _model_checked' = TRUE
    /\ ChatEnter
    /\ UNCHANGED <<analysis_cache, timestamps, now, caller, lastDone, concurrent,
                   nonAnVars>>

ChatAcquireSlot ==
    /\ chat = "acquire"
    /\ llm_semaphore > 0
    /\ llm_semaphore' = llm_semaphore - 1
    /\ chat' = "stream"
    /\ UNCHANGED <<_model_checked, analysis_cache, timestamps, now, caller, lastDone,
                   concurrent, nonAnVars>>

\* the stream ended or raised: the slot is released
ChatEnd ==
    /\ chat = "stream"
    /\ llm_semaphore' = llm_semaphore + 1
    /\ chat' = "idle"
    /\ UNCHANGED <<_model_checked, analysis_cache, timestamps, now, caller, lastDone,
                   concurrent, nonAnVars>>

AnalyzerNext ==
    \/ \E k \in Callers : \E text \in Texts : Begin(k, text)
    \/ \E k \in Callers : PullReturned(k)
    \/ \E k \in Callers : ModelChecked(k)
    \/ \E k \in Callers : AcquireSlot(k)
    \/ \E k \in Callers : \E raw \in RawResponses : AnalysisReturned(k, raw)
    \/ \E k \in Callers : AnalysisRaises(k)
    \/ ClearCache
    \/ Tick
    \/ ChatBegin
    \/ ChatPullReturned
    \/ ChatModelChecked
    \/ ChatAcquireSlot
    \/ ChatEnd

\* ================================================== pipeline/cleaning.py
\* A str is a sequence of characters; the characters of the model are one
\* lowercase letter, one uppercase letter, a punctuation mark, the space, and
\* U+0130 (capital I with dot above), whose lower() is "i" followed by the
\* combining dot U+0307.
Chars == {"a", "B", "!", " ", "U+0130"}

\* longest tag, and longest list of tags, given to clean_and_validate_hashtags
MaxTagLen == 2

MaxTags == 2

\* an element of the list that is not a str, and a value that is not a list
NotAStr == <<"<not a str>">>

NotAList == <<<<"<not a list>">>>>

Strs(n) == UNION {[1..m -> Chars] : m \in 0..n}

HashtagLists == UNION {[1..m -> Strs(MaxTagLen) \cup {NotAStr}] : m \in 0..MaxTags}

\* \w of a str pattern: str.isalnum() or the underscore
IsWordChar(ch) == ch \in {"a", "b", "B", "i", "U+0130", "_"}

\* \s
IsSpaceChar(ch) == ch = " "

\* re.sub(r"[^\w\s]", "", tag)
re_sub(tag) == SelectSeq(tag, LAMBDA ch : IsWordChar(ch) \/ IsSpaceChar(ch))

RECURSIVE lstrip(_)
lstrip(tag) ==
    IF tag # <<>> /\ IsSpaceChar(Head(tag)) THEN lstrip(Tail(tag)) ELSE tag

RECURSIVE rstrip(_)
rstrip(tag) ==
    IF tag # <<>> /\ IsSpaceChar(tag[Len(tag)])
    THEN rstrip(SubSeq(tag, 1, Len(tag) - 1))
    ELSE tag

\* str.strip()
strip(tag) == rstrip(lstrip(tag))

\* str.replace(" ", "_")
replace(tag) == [i \in 1..Len(tag) |-> IF tag[i] = " " THEN "_" ELSE tag[i]]

\* lower() of one character
LowerChar(ch) ==
    IF ch = "B" THEN <<"b">>
    ELSE IF ch = "U+0130" THEN <<"i", "U+0307">>
    ELSE <<ch>>

RECURSIVE lower(_)
\* str.lower()
lower(tag) == IF tag = <<>> THEN <<>> ELSE LowerChar(Head(tag)) \o lower(Tail(tag))

\* tag_clean of the loop
tag_clean(tag) == replace(strip(re_sub(tag)))

RECURSIVE CleanedOf(_)
\* the list "cleaned" after the loop over raw
CleanedOf(raw) ==
    IF raw = <<>> THEN <<>>
    ELSE IF Head(raw) = NotAStr \/ tag_clean(Head(raw)) = <<>>
         THEN CleanedOf(Tail(raw))
         ELSE <<lower(tag_clean(Head(raw)))>> \o CleanedOf(Tail(raw))

RECURSIVE dict_fromkeys(_)
\* list(dict.fromkeys(cleaned)): the first occurrence of each tag, in order
dict_fromkeys(cleaned) ==
    IF cleaned = <<>> THEN <<>>
    ELSE LET init == dict_fromkeys(SubSeq(cleaned, 1, Len(cleaned) - 1))
             last == cleaned[Len(cleaned)]
         IN IF \E i \in 1..Len(init) : init[i] = last THEN init ELSE Append(init, last)

clean_and_validate_hashtags(raw) ==
    IF raw = NotAList THEN <<>> ELSE dict_fromkeys(CleanedOf(raw))

\* no call of clean_and_validate_hashtags under way
CleanIdle ==
    /\ raw_hashtags = <<>>
    /\ cleaned_hashtags = <<>>

\* some list, or a value that is not a list, is about to be cleaned
CleanInit ==
    /\ raw_hashtags \in HashtagLists \cup {NotAList}
    /\ cleaned_hashtags = <<>>

\* clean_and_validate_hashtags is applied to the input, then to its output;
\* cleaned_hashtags holds the outputs so far
Clean ==
    /\ Len(cleaned_hashtags) < 2
    /\ cleaned_hashtags' = Append(cleaned_hashtags,
          clean_and_validate_hashtags(IF cleaned_hashtags = <<>> THEN raw_hashtags
                                      ELSE cleaned_hashtags[Len(cleaned_hashtags)]))
    /\ UNCHANGED <<raw_hashtags, pollVars, anVars, respVars, notVars, auxVars>>

\* ============================ analyze_message: handling of the response
\* fields of NewsAnalysis
Keys == {"summary", "sentiment", "hashtags"}

\* the sentiments the prompt permits ("Позитивная", "Негативная",
\* "Нейтральная"), and one more string the model may answer
PermittedSentiments == {"Positive", "Negative", "Neutral"}

SentimentStrings == PermittedSentiments \cup {"Mixed"}

\* settings.MAX_HASHTAGS_IN_ANALYSIS
MAX_HASHTAGS_IN_ANALYSIS == 5

\* tags of letters only, and the lists of MAX_HASHTAGS_IN_ANALYSIS + 1 of them
WordTags == UNION {[1..m -> {"a", "B"}] : m \in 1..2}

LongHashtagLists == [1..(MAX_HASHTAGS_IN_ANALYSIS + 1) -> WordTags]

SmallHashtagValues == {<<>>, <<<<"a">>>>, <<<<"a">>, <<"a">>>>, NotAList}

\* What llm_json.ainvoke returns. shape: a dict, a list, or a str that holds
\* a JSON object, a JSON array, or no JSON. keys, sentiment and hashtags
\* describe the object (hashtags is the list itself for the shape "list").
Response(shape, keys, sentiment, hashtags) ==
    [shape |-> shape, keys |-> keys, sentiment |-> sentiment, hashtags |-> hashtags]

Responses ==
    {Response(sh, K, s, h) : sh \in {"dict", "str_object"}, K \in SUBSET Keys,
                             s \in SentimentStrings, h \in SmallHashtagValues}
    \cup {Response("dict", Keys, "Neutral", h) : h \in HashtagLists \cup LongHashtagLists}
    \cup {Response("list", {}, "Neutral", h) : h \in HashtagLists}
    \cup {Response(sh, {}, "Neutral", <<>>) : sh \in {"str_array", "str_text"}}

\* response_json: the dict of the response, the dict built around a list,
\* or the value json.loads gives (an array is not a dict; JSONDecodeError)
response_json(raw) ==
    IF raw.shape \in {"dict", "str_object"}
    THEN [type |-> "dict", keys |-> raw.keys, summary |-> "summary of the model",
          sentiment |-> raw.sentiment, hashtags |-> raw.hashtags]
    ELSE IF raw.shape = "list"
    THEN [type |-> "dict", keys |-> Keys, summary |-> " ",
          sentiment |-> "Neutral", hashtags |-> raw.hashtags]
    ELSE [type |-> IF raw.shape = "str_array" THEN "list" ELSE "JSONDecodeError",
          keys |-> {}, summary |-> "", sentiment |-> "", hashtags |-> <<>>]

\* data["hashtags"] after "if isinstance(data.get("hashtags"), list)"
CleanedHashtagsOf(data) ==
    IF "hashtags" \in data.keys /\ data.hashtags # NotAList
    THEN clean_and_validate_hashtags(data.hashtags)
    ELSE data.hashtags

NoAnalysis == [kind |-> "None"]

\* What analyze_message returns for the response: None on a JSONDecodeError,
\* None from the except branch when data is not a dict (data.get raises) or
\* NewsAnalysis(**data) raises (a field is missing, hashtags is no list),
\* and the NewsAnalysis otherwise.
HandleResponse(raw) ==
    LET data == response_json(raw) IN
    IF data.type # "dict" THEN NoAnalysis
    ELSE IF data.keys # Keys \/ CleanedHashtagsOf(data) = NotAList THEN NoAnalysis
    ELSE [kind |-> "NewsAnalysis", summary |-> data.summary,
          sentiment |-> data.sentiment, hashtags |-> CleanedHashtagsOf(data)]

\* no response is being handled
ResponseIdle ==
    /\ response_raw = Response("str_text", {}, "Neutral", <<>>)
    /\ returned = [kind |-> "pending"]
    /\ cache_put = [kind |-> "pending"]

\* llm_json.ainvoke has returned some response
ResponseInit ==
    /\ response_raw \in Responses
    /\ returned = [kind |-> "pending"]
    /\ cache_put = [kind |-> "pending"]

\* the code of analyze_message from the return of ainvoke to its return:
\* the analysis, if any, is put into the cache and returned
ResponseHandled ==
    /\ returned.kind = "pending"
    /\ returned' = HandleResponse(response_raw)
    /\ cache_put' = HandleResponse(response_raw)
    /\ UNCHANGED <<response_raw, pollVars, anVars, cleanVars, notVars, auxVars>>

\* ================================== bot/notifier.py: NotificationManager
\* chat ids of the subscribers table
Users == {1, 2}

\* analyses handed to send_analysis_result in a run
MaxNotifications == 2

\* coroutines inside send_analysis_result: the message tasks of the polling
\* loop
Dispatchers == {1, 2}

\* sentiment_map of should_send_notification; the values stand for the
\* Russian strings of the source
sentiment_map ==
    [positive |-> "Pozitivnaya", negative |-> "Negativnaya", neutral |-> "Neytralnaya"]

\* analyses of the polling loop, by the fields the dispatcher depends on
AnalysisResults ==
    { [sentiment |-> "Pozitivnaya", hashtags |-> <<"x">>],
      [sentiment |-> "Negativnaya", hashtags |-> <<"y">>] }

\* NewsAnalysis.format_hashtags: the text "#tag #tag ..." as its words
format_hashtags(hashtags) ==
    IF hashtags = <<>> THEN <<"no hashtags generated">>
    ELSE [i \in 1..Len(hashtags) |-> <<"#", hashtags[i]>>]

\* notification_data of _process_single_message for message number id; the
\* link stands for the message, the summary plays no part in the dispatch.
\* The dict has no key "hashtags".
notification_data(id, channel_title, analysis) ==
    [channel_title |-> channel_title,
     message_link |-> id,
     sentiment |-> analysis.sentiment,
     hashtags_formatted |-> format_hashtags(analysis.hashtags)]

\* dict.get(key, default)
dict_get(d, key, default) == IF key \in DOMAIN d THEN d[key] ELSE default

\* a row of user_settings as get_user_settings returns it; the defaults
\* are those of a missing row. Quiet hours are not set in the rows of the
\* model.
DefaultSettings ==
    [notification_enabled |-> TRUE, sentiment_filter |-> "all", hashtag_filters |-> <<>>]

SettingsRows ==
    { DefaultSettings,
      [DefaultSettings EXCEPT !.notification_enabled = FALSE],
      [DefaultSettings EXCEPT !.sentiment_filter = "positive"],
      [DefaultSettings EXCEPT !.hashtag_filters = <<"x">>] }

\* DataManager.should_send_notification
should_send_notification(chat_id, sentiment, hashtags) ==
    LET settings == user_settings[chat_id]
        sentiment_filter == settings.sentiment_filter
        hashtag_filters == settings.hashtag_filters
    IN
    IF ~settings.notification_enabled THEN FALSE
    ELSE IF /\ sentiment_filter # "all"
            /\ sentiment # ""
            /\ sentiment # sentiment_map[sentiment_filter] THEN FALSE
    ELSE IF /\ hashtag_filters # <<>>
            /\ hashtags # <<>>
            /\ ~\E i \in 1..Len(hashtags) : hashtags[i] \in Range(hashtag_filters)
         THEN FALSE
    ELSE TRUE

\* DataManager.get_all_subscribers: the chat ids with is_active = 1
get_all_subscribers == SelectSeq(<<1, 2>>, LAMBDA chat_id : is_active[chat_id])

\* channel_groups of _send_batch, in the order of the dict: the
\* notifications of the queue by channel_title
channel_groups(queue) ==
    LET channels == dict_fromkeys([i \in 1..Len(queue) |-> queue[i].channel_title])
    IN [j \in 1..Len(channels) |->
           SelectSeq(queue, LAMBDA n : n.channel_title = channels[j])]

\* a coroutine outside send_analysis_result
NoDispatch ==
    [pc |-> "idle", id |-> 0, subscribers |-> <<>>, groups |-> <<>>, g |-> 1, u |-> 1,
     successful_sends |-> 0, failed_sends |-> 0, filtered_sends |-> 0]

\* the notifications of the call of _send_single_notification or
\* _send_group_notification that t is in
Group(t) == t.groups[t.g]

Path(t) == IF Len(Group(t)) = 1 THEN "single" ELSE "group"

\* The loops of _send_batch and of _send_single_notification and
\* _send_group_notification from subscriber number t.u of group number t.g
\* up to the next await of bot.send_message, or to the end of _send_batch.
\* Only _send_single_notification asks should_send_notification.
RECURSIVE SendLoop(_)
SendLoop(t) ==
    IF t.u > Len(t.subscribers)
    THEN IF t.g = Len(t.groups) THEN [t EXCEPT !.pc = "done"]
         ELSE SendLoop([t EXCEPT !.g = @ + 1, !.u = 1, !.successful_sends = 0,
                                 !.failed_sends = 0, !.filtered_sends = 0])
    ELSE IF /\ Path(t) = "single"
            /\ ~should_send_notification(t.subscribers[t.u],
                    dict_get(Group(t)[1], "sentiment", ""),
                    dict_get(Group(t)[1], "hashtags", <<>>))
         THEN SendLoop([t EXCEPT !.u = @ + 1, !.filtered_sends = @ + 1])
    ELSE [t EXCEPT !.pc = "sending"]

\* the call of bot.send_message that t awaits
Send(t, outcome) ==
    [dispatch |-> t.id, path |-> Path(t),
     notifications |-> {Group(t)[i].message_link : i \in 1..Len(Group(t))},
     user |-> t.subscribers[t.u], outcome |-> outcome]

\* the queue after self.notification_queue.append
Queued(channel_title, analysis) ==
    Append(notification_queue,
           notification_data(Len(results) + 1, channel_title, analysis))

NotifierIdle ==
    /\ notification_queue = <<>>
    /\ is_active = [chat_id \in Users |-> TRUE]
    /\ user_settings = [chat_id \in Users |-> DefaultSettings]
    /\ dispatch = [d \in Dispatchers |-> NoDispatch]
    /\ results = <<>>
    /\ sends = {}

NotifierInit ==
    /\ notification_queue = <<>>
    /\ is_active = [chat_id \in Users |-> TRUE]
    /\ user_settings \in [Users -> SettingsRows]
    /\ dispatch = [d \in Dispatchers |-> NoDispatch]
    /\ results = <<>>
    /\ sends = {}

\* send_analysis_result(notification_data): add_notification appends to the
\* queue; batch_size is 1, so _send_batch runs at once: the subscribers are
\* read, the queue is grouped by channel and the send loops run up to the
\* first await of bot.send_message
AddNotification(d, channel_title, analysis) ==
    LET queue == Queued(channel_title, analysis)
        subscribers == get_all_subscribers
        started == [NoDispatch EXCEPT !.id = Len(results) + 1]
        t == IF subscribers = <<>> THEN [started EXCEPT !.pc = "done"]
             ELSE SendLoop([started EXCEPT !.subscribers = subscribers,
                                           !.groups = channel_groups(queue)])
    IN
    /\ dispatch[d].pc # "sending"
    /\ Len(results) < MaxNotifications
    /\ results' = Append(results, analysis)
    /\ dispatch' = [dispatch EXCEPT ![d] = t]
    /\ notification_queue' = IF t.pc = "done" THEN <<>> ELSE queue
    /\ UNCHANGED <<is_active, user_settings, sends, nonNotVars>>

\* send_analysis_result(notification_data) where the call
\* data_manager.get_all_subscribers() raises: the exception leaves
\* _send_batch and add_notification, the queue keeps the notification
LookupRaises(d, channel_title, analysis) ==
    /\ dispatch[d].pc # "sending"
    /\ Len(results) < MaxNotifications
    /\ results' = Append(results, analysis)
    /\ dispatch' = [dispatch EXCEPT ![d] =
          [NoDispatch EXCEPT !.pc = "raised", !.id = Len(results) + 1]]
    /\ notification_queue' = Queued(channel_title, analysis)
    /\ UNCHANGED <<is_active, user_settings, sends, nonNotVars>>

\* the loops go on after the send to subscriber number t.u ended; at the end
\* of _send_batch the queue is cleared
Continue(d, t) ==
    LET after == SendLoop([t EXCEPT !.u = @ + 1])
    IN /\ dispatch' = [dispatch EXCEPT ![d] = after]
       /\ notification_queue' = IF after.pc = "done" THEN <<>> ELSE notification_queue

\* bot.send_message returned, and asyncio.sleep(0.1) after it
SendReturns(d) ==
    /\ dispatch[d].pc = "sending"
    /\ sends' = sends \cup {Send(dispatch[d], "ok")}
    /\ Continue(d, [dispatch[d] EXCEPT !.successful_sends = @ + 1])
    /\ UNCHANGED <<is_active, user_settings, results, nonNotVars>>

\* bot.send_message raised TelegramAPIError "bot was blocked":
\* data_manager.remove_subscriber(user_id) marks the subscriber inactive
SendBlocked(d) ==
    /\ dispatch[d].pc = "sending"
    /\ sends' = sends \cup {Send(dispatch[d], "blocked")}
    /\ is_active' = [is_active EXCEPT ![dispatch[d].subscribers[dispatch[d].u]] = FALSE]
    /\ Continue(d, [dispatch[d] EXCEPT !.failed_sends = @ + 1])
    /\ UNCHANGED <<user_settings, results, nonNotVars>>

\* bot.send_message raised TelegramAPIError "bot was blocked" and
\* data_manager.remove_subscriber(user_id) raises inside the except clause:
\* the exception leaves the loop, _send_batch and add_notification
RemoveSubscriberRaises(d) ==
    /\ dispatch[d].pc = "sending"
    /\ sends' = sends \cup {Send(dispatch[d], "blocked")}
    /\ dispatch' = [dispatch EXCEPT ![d].pc = "raised", ![d].failed_sends = @ + 1]
    /\ UNCHANGED <<notification_queue, is_active, user_settings, results, nonNotVars>>

\* bot.send_message raised another error
SendFails(d) ==
    /\ dispatch[d].pc = "sending"
    /\ sends' = sends \cup {Send(dispatch[d], "error")}
    /\ Continue(d, [dispatch[d] EXCEPT !.failed_sends = @ + 1])
    /\ UNCHANGED <<is_active, user_settings, results, nonNotVars>>

NotifierNext ==
    \/ \E d \in Dispatchers : \E channel_title \in Chans : \E analysis \in AnalysisResults :
          \/ AddNotification(d, channel_title, analysis)
          \/ LookupRaises(d, channel_title, analysis)
    \/ \E d \in Dispatchers :
          \/ SendReturns(d)
          \/ SendBlocked(d)
          \/ RemoveSubscriberRaises(d)
          \/ SendFails(d)

\* ---------------------------------------------------------------- initial
PollInit ==
    /\ top = [c \in Chans |-> 0]
    /\ last_message_id = [c \in Chans |-> 0]
    /\ messages = {}
    /\ analyses = [i \in Ids |-> "none"]
    /\ chanPc = [c \in Chans |-> "start"]
    /\ last_local = [c \in Chans |-> None]
    /\ batch = [c \in Chans |-> <<>>]
    /\ task = [c \in Chans |-> [i \in Ids |-> NoTask]]
    /\ semaphore = MAX_CONCURRENT_REQUESTS
    /\ fetchedEver = {}
    /\ anWritten = {}

\* ================ data_manager.py: quiet hours of should_send_notification
\* hours and minutes of the settings and of the clock of the model
Hours == {0, 7, 22, 23}

Minutes == {0, 30}

\* a setting quiet_hours_start or quiet_hours_end: the text "HH:MM" by its
\* two numbers, or no value
QuietSettings == (Hours \X Minutes) \cup {<<>>}

\* datetime.now().time(): hour, minute, second
ClockTimes == Hours \X Minutes \X {0, 30}

\* datetime.strptime(text, "%H:%M").time()
strptime(text) == <<text[1], text[2], 0>>

\* the order of datetime.time values
TimeLeq(a, b) ==
    (a[1] * 60 + a[2]) * 60 + a[3] <= (b[1] * 60 + b[2]) * 60 + b[3]

\* the quiet hours check: True when should_send_notification returns False
\* because of the quiet hours
in_quiet_hours(quiet_start, quiet_end, time_now) ==
    IF quiet_start # <<>> /\ quiet_end # <<>>
    THEN LET start_time == strptime(quiet_start)
             end_time == strptime(quiet_end)
         IN TimeLeq(start_time, time_now) /\ TimeLeq(time_now, end_time)
    ELSE FALSE

QuietIdle ==
    /\ quiet_hours_start = <<>>
    /\ quiet_hours_end = <<>>
    /\ clock = <<0, 0, 0>>
    /\ quiet = "pending"

QuietInit ==
    /\ quiet_hours_start \in QuietSettings
    /\ quiet_hours_end \in QuietSettings
    /\ clock \in ClockTimes
    /\ quiet = "pending"

\* should_send_notification reaches the quiet hours check
QuietChecked ==
    /\ quiet = "pending"
    /\ quiet' = IF in_quiet_hours(quiet_hours_start, quiet_hours_end, clock)
                THEN "skip" ELSE "send"
    /\ UNCHANGED <<quiet_hours_start, quiet_hours_end, clock, nonQuietVars>>

\* ============== pg_manager.py, data_manager.py: save_message, save_analysis
\* texts of a message: a message that is fetched again may have been edited
MessageTexts == {"text", "edited text"}

\* the dicts of get_new_messages, by the columns of the table messages that
\* depend on the message
MessageDicts ==
    [channel_id : Chans, id : {1, 2}, text : MessageTexts]

\* analysis.dict() of a NewsAnalysis
AnalysisDicts ==
    [summary : {"summary 1", "summary 2"}, sentiment : {"Pozitivnaya"},
     hashtags : {<<>>, <<"x">>}]

\* json.dumps(hashtags): the JSON text of the list
json_dumps(hashtags) == <<"[">> \o hashtags \o <<"]">>

\* (mutant) INSERT OR REPLACE: the row of the key is replaced
save_message_replaces(table, message) ==
    {row \in table : ~(row.channel_id = message.channel_id /\ row.message_id = message.id)}
        \cup {[channel_id |-> message.channel_id, message_id |-> message.id,
                text |-> message.text]}

\* save_message: INSERT INTO messages ... ON CONFLICT DO NOTHING, primary key
\* (channel_id, message_id)
save_message(table, message) ==
    IF \E row \in table :
          row.channel_id = message.channel_id /\ row.message_id = message.id
    THEN table
    ELSE table \cup {[channel_id |-> message.channel_id, message_id |-> message.id,
                       text |-> message.text]}

\* save_analysis: INSERT INTO analyses ... ON CONFLICT(message_id) DO UPDATE
\* SET summary, sentiment, hashtags
save_analysis(table, message_id, analysis) ==
    {row \in table : row.message_id # message_id}
        \cup {[message_id |-> message_id, summary |-> analysis.summary,
                sentiment |-> analysis.sentiment,
                hashtags |-> json_dumps(analysis.hashtags)]}

NoStoreCall == [op |-> "none"]

StoreIdle ==
    /\ messages_rows = {}
    /\ analyses_rows = {}
    /\ last_call = NoStoreCall

\* a call of save_message(message)
SaveMessageCall(message) ==
    /\ messages_rows' = save_message(messages_rows, message)
    /\ last_call' = [op |-> "save_message", message |-> message]
    /\ UNCHANGED <<analyses_rows, nonStoreVars>>

\* a call of save_analysis(message_id, analysis)
SaveAnalysisCall(message_id, analysis) ==
    /\ analyses_rows' = save_analysis(analyses_rows, message_id, analysis)
    /\ last_call' = [op |-> "save_analysis", message_id |-> message_id,
                     analysis |-> analysis]
    /\ UNCHANGED <<messages_rows, nonStoreVars>>

StoreNext ==
    \/ \E message \in MessageDicts : SaveMessageCall(message)
    \/ \E message_id \in {1, 2} : \E analysis \in AnalysisDicts :
          SaveAnalysisCall(message_id, analysis)

\* ======================================= analyzer.py: LRUCacheWithTTL
\* largest max_size of the objects of the model
MaxSize == 2

LruKeys == {"k1", "k2", "k3"}

LruValues == {"v1", "v2"}

\* LRUCacheWithTTL(max_size, ttl_seconds): cache is the OrderedDict as the
\* sequence of its items, oldest first; timestamps is the dict
LRUCacheWithTTL(max_size, ttl_seconds) ==
    [max_size |-> max_size, ttl_seconds |-> ttl_seconds, cache |-> <<>>,
     timestamps |-> [key \in {} |-> 0]]

\* dict.pop(key, None)
dict_pop(d, key) == [k \in DOMAIN d \ {key} |-> d[k]]

\* LRUCacheWithTTL._remove
lru_remove(self, key) ==
    [self EXCEPT !.cache = _remove(self.cache, key),
                 !.timestamps = dict_pop(self.timestamps, key)]

\* (mutant) get returns the entry without moving it to the end
lru_get_keeps_order(self, time, key) ==
    IF key \notin CacheKeys(self.cache)
    THEN [self |-> self, value |-> "None"]
    ELSE IF time - self.timestamps[key] > self.ttl_seconds
    THEN [self |-> lru_remove(self, key), value |-> "None"]
    ELSE [self |-> self, value |-> CacheEntry(self.cache, key).value]

\* (mutant) get takes the entry for fresh when it is found
lru_get_refreshes(self, time, key) ==
    IF key \notin CacheKeys(self.cache)
    THEN [self |-> self, value |-> "None"]
    ELSE IF time - self.timestamps[key] > self.ttl_seconds
    THEN [self |-> [self EXCEPT !.cache = move_to_end(self.cache, key),
                                !.timestamps = [self.timestamps EXCEPT ![key] = time]],
          value |-> CacheEntry(self.cache, key).value]
    ELSE [self |-> [self EXCEPT !.cache = move_to_end(self.cache, key)],
          value |-> CacheEntry(self.cache, key).value]

\* LRUCacheWithTTL.get at time.time() = time: the object after the call and
\* what the call returns
lru_get(self, time, key) ==
    IF key \notin CacheKeys(self.cache)
    THEN [self |-> self, value |-> "None"]
    ELSE IF time - self.timestamps[key] > self.ttl_seconds
    THEN [self |-> lru_remove(self, key), value |-> "None"]
    ELSE [self |-> [self EXCEPT !.cache = move_to_end(self.cache, key)],
          value |-> CacheEntry(self.cache, key).value]

\* LRUCacheWithTTL.put at time.time() = time
lru_put(self, time, key, value) ==
    LET kept == IF key \in CacheKeys(self.cache)
                THEN [self EXCEPT !.cache = move_to_end(self.cache, key)]
                ELSE IF Len(self.cache) >= self.max_size
                     THEN lru_remove(self, self.cache[1].key)
                     ELSE self
    IN [kept EXCEPT
          !.cache = IF key \in CacheKeys(kept.cache)
                    THEN [i \in 1..Len(kept.cache) |->
                             IF kept.cache[i].key = key
                             THEN [key |-> key, value |-> value]
                             ELSE kept.cache[i]]
                    ELSE Append(kept.cache, [key |-> key, value |-> value]),
          !.timestamps = [k \in DOMAIN kept.timestamps \cup {key} |->
                             IF k = key THEN time ELSE kept.timestamps[k]]]

\* LRUCacheWithTTL.clear
lru_clear(self) ==
    [self EXCEPT !.cache = <<>>, !.timestamps = [key \in {} |-> 0]]

\* the keys in the order of their last use, after a use of key
Used(keys, key) == Append(SelectSeq(keys, LAMBDA k : k # key), key)

LruIdle ==
    /\ lru = LRUCacheWithTTL(1, DEFAULT_CACHE_TTL_SECONDS)
    /\ lru_time = 0
    /\ recency = <<>>
    /\ lru_last = [op |-> "none"]

LruInit ==
    /\ \E max_size \in 1..MaxSize : lru = LRUCacheWithTTL(max_size, DEFAULT_CACHE_TTL_SECONDS)
    /\ lru_time = 0
    /\ recency = <<>>
    /\ lru_last = [op |-> "none"]

\* a call of get(key); a get that returns the entry is a use of the key
LruGet(key) ==
    LET got == lru_get(lru, lru_time, key) IN
    /\ lru' = got.self
    /\ recency' = IF got.value # "None" THEN Used(recency, key) ELSE recency
    /\ lru_last' = [op |-> "get", key |-> key, value |-> got.value,
                     was_present |-> key \in CacheKeys(lru.cache)]
    /\ UNCHANGED <<lru_time, nonLruVars>>

\* a call of put(key, value), a use of the key
LruPut(key, value) ==
    /\ lru' = lru_put(lru, lru_time, key, value)
    /\ recency' = Used(recency, key)
    /\ lru_last' = [op |-> "put", key |-> key, value |-> value]
    /\ UNCHANGED <<lru_time, nonLruVars>>

\* a call of clear()
LruClear ==
    /\ lru' = lru_clear(lru)
    /\ lru_last' = [op |-> "clear"]
    /\ UNCHANGED <<lru_time, recency, nonLruVars>>

\* time.time() grows
LruTick ==
    /\ lru_time < MaxTime
    /\ lru_time' = lru_time + 1
    /\ lru_last' = [op |-> "tick"]
    /\ UNCHANGED <<lru, recency, nonLruVars>>

LruNext ==
    \/ \E key \in LruKeys : LruGet(key)
    \/ \E key \in LruKeys : \E value \in LruValues : LruPut(key, value)
    \/ LruClear
    \/ LruTick

\* ================================ error_handler.py: retry_with_backoff
\* largest max_attempts of the configurations of the model
MaxAttempts == 3

\* delays are counted in quarters of a second, so that the jitter keeps
\* them whole
Quarter == 4

\* RetryConfig(max_attempts, base_delay, max_delay, exponential_base, jitter)
RetryConfigs ==
    [max_attempts : 1..MaxAttempts, base_delay : {2 * Quarter, 4 * Quarter},
     max_delay : {4 * Quarter, 6 * Quarter}, exponential_base : {2},
     jitter : BOOLEAN]

ExceptionTypes == {"FloodWaitError", "ConnectionError", "ValueError"}

\* the exceptions argument of the decorator: the two types of
\* get_channel_entity, or Exception
ExceptionsArguments == {{"FloodWaitError", "ConnectionError"}, ExceptionTypes}

FuncResults == {"entity"}

\* 0.5 + random.random() * 0.5, in quarters: random.random() is in [0, 1)
JitterFactors == {2, 3}

RECURSIVE Power(_, _)
Power(base, exponent) ==
    IF exponent = 0 THEN 1 ELSE base * Power(base, exponent - 1)

Min(a, b) == IF a <= b THEN a ELSE b

\* (mutant) the delay without the cap
uncapped_delay(config, n, factor) ==
    LET delay == config.base_delay * Power(config.exponential_base, n)
    IN IF config.jitter THEN (delay * factor) \div Quarter ELSE delay

\* the delay before the retry that follows attempt n
backoff_delay(config, n, factor) ==
    LET delay == Min(config.base_delay * Power(config.exponential_base, n),
                     config.max_delay)
    IN IF config.jitter THEN (delay * factor) \div Quarter ELSE delay

NoException == [type |-> "None"]

RetryIdle ==
    /\ retry_config = [max_attempts |-> 1, base_delay |-> 2 * Quarter,
                        max_delay |-> 4 * Quarter, exponential_base |-> 2,
                        jitter |-> FALSE]
    /\ retry_exceptions = ExceptionTypes
    /\ attempt = 0
    /\ retry_pc = "idle"
    /\ func_calls = <<>>
    /\ sleeps = <<>>
    /\ last_exception = NoException
    /\ wrapper_outcome = [kind |-> "none"]

\* the wrapper is called: the first iteration of the loop
RetryInit ==
    /\ retry_config \in RetryConfigs
    /\ retry_exceptions \in ExceptionsArguments
    /\ attempt = 0
    /\ retry_pc = "call"
    /\ func_calls = <<>>
    /\ sleeps = <<>>
    /\ last_exception = NoException
    /\ wrapper_outcome = [kind |-> "none"]

\* return await func(*args, **kwargs)
FuncReturns(result) ==
    /\ retry_pc = "call"
    /\ func_calls' = Append(func_calls, [kind |-> "return", value |-> result])
    /\ wrapper_outcome' = [kind |-> "return", value |-> result]
    /\ retry_pc' = "done"
    /\ UNCHANGED <<retry_config, retry_exceptions, attempt, sleeps, last_exception,
                   nonRetryVars>>

\* func raises an exception of a type that except exceptions does not catch
FuncRaisesOther(type) ==
    LET e == [type |-> type, attempt |-> attempt] IN
    /\ retry_pc = "call"
    /\ type \notin retry_exceptions
    /\ func_calls' = Append(func_calls, [kind |-> "raise", exception |-> e])
    /\ wrapper_outcome' = [kind |-> "raise", exception |-> e]
    /\ retry_pc' = "done"
    /\ UNCHANGED <<retry_config, retry_exceptions, attempt, sleeps, last_exception,
                   nonRetryVars>>

\* func raises an exception that except exceptions catches: the wrapper
\* sleeps when attempt < max_attempts - 1, and leaves the loop and raises
\* last_exception otherwise
FuncRaises(type, factor) ==
    LET e == [type |-> type, attempt |-> attempt] IN
    /\ retry_pc = "call"
    /\ type \in retry_exceptions
    /\ func_calls' = Append(func_calls, [kind |-> "raise", exception |-> e])
    /\ last_exception' = e
    /\ IF attempt < retry_config.max_attempts - 1
       THEN /\ sleeps' = Append(sleeps, backoff_delay(retry_config, attempt, factor))
            /\ retry_pc' = "sleep"
            /\ UNCHANGED wrapper_outcome
       ELSE /\ wrapper_outcome' = [kind |-> "raise", exception |-> e]
            /\ retry_pc' = "done"
            /\ UNCHANGED sleeps
    /\ UNCHANGED <<retry_config, retry_exceptions, attempt, nonRetryVars>>

\* asyncio.sleep(delay) returns: the next iteration of the loop
SleepReturns ==
    /\ retry_pc = "sleep"
    /\ attempt' = attempt + 1
    /\ retry_pc' = "call"
    /\ UNCHANGED <<retry_config, retry_exceptions, func_calls, sleeps, last_exception,
                   wrapper_outcome, nonRetryVars>>

RetryNext ==
    \/ \E result \in FuncResults : FuncReturns(result)
    \/ \E type \in ExceptionTypes : FuncRaisesOther(type)
    \/ \E type \in ExceptionTypes : \E factor \in JitterFactors : FuncRaises(type, factor)
    \/ SleepReturns

\* the components studied on their own, before any input is given to them
AuxIdle ==
    /\ QuietIdle
    /\ StoreIdle
    /\ LruIdle
    /\ RetryIdle

\* the polling loop, the analyzer and the notification manager before their
\* first step
BaseIdle ==
    /\ PollInit
    /\ poison = {}
    /\ AnalyzerInit
    /\ CleanIdle
    /\ ResponseIdle
    /\ NotifierIdle

Init ==
    /\ PollInit
    /\ poison = {}
    /\ AnalyzerInit
    /\ CleanIdle
    /\ ResponseIdle
    /\ NotifierIdle
    /\ AuxIdle

\* ------------------------------------------------------------ environment
\* A new message is posted in channel c. The channel coroutine observes the
\* source only in get_initial_last_message_id and get_new_messages, so posts
\* are interleaved right before those two reads.
Post(c) ==
    /\ chanPc[c] \in {"seed", "fetch"}
    /\ top[c] < MaxIdOf(c)
    /\ top' = [top EXCEPT ![c] = @ + 1]
    /\ UNCHANGED <<last_message_id, messages, analyses, chanPc, last_local, batch,
                   task, semaphore, poison, nonPollVars, fetchedEver, anWritten>>

\* ------------------------------------------------------- _process_channel
\* data_manager.get_last_message_id returns the stored cursor.
GetCursor(c) ==
    /\ chanPc[c] = "start"
    /\ last_local' = [last_local EXCEPT ![c] = last_message_id[c]]
    /\ chanPc' = [chanPc EXCEPT ![c] = IF last_message_id[c] = 0 THEN "seed" ELSE "fetch"]
    /\ UNCHANGED <<top, last_message_id, messages, analyses, batch, task, semaphore, poison, nonPollVars, fetchedEver, anWritten>>

\* data_manager.get_last_message_id raises: the outer except ends the cycle of c.
GetCursorRaises(c) ==
    /\ chanPc[c] = "start"
    /\ chanPc' = [chanPc EXCEPT ![c] = "error"]
    /\ UNCHANGED <<top, last_message_id, messages, analyses, last_local, batch, task,
                   semaphore, poison, nonPollVars, fetchedEver, anWritten>>

\* cursor 0: get_initial_last_message_id returned id > 0 and the cursor is
\* seeded with it; the cycle of c ends.
Seed(c) ==
    /\ chanPc[c] = "seed"
    /\ get_initial_last_message_id(c) > 0
    /\ last_message_id' = [last_message_id EXCEPT ![c] = get_initial_last_message_id(c)]
    /\ last_local' = [last_local EXCEPT ![c] = get_initial_last_message_id(c)]
    /\ chanPc' = [chanPc EXCEPT ![c] = "done"]
    /\ UNCHANGED <<top, messages, analyses, batch, task, semaphore, poison, nonPollVars,
                   fetchedEver, anWritten>>

\* as Seed, but set_last_message_id raises: the outer except ends the cycle.
SeedWriteRaises(c) ==
    /\ chanPc[c] = "seed"
    /\ get_initial_last_message_id(c) > 0
    /\ last_local' = [last_local EXCEPT ![c] = get_initial_last_message_id(c)]
    /\ chanPc' = [chanPc EXCEPT ![c] = "error"]
    /\ UNCHANGED <<top, last_message_id, messages, analyses, batch, task, semaphore, poison, nonPollVars, fetchedEver, anWritten>>

\* cursor 0 and get_initial_last_message_id returned 0 (no client, an empty
\* channel, or an exception it caught): the coroutine goes on to
\* get_new_messages with last_message_id = 0.
SeedReturnsZero(c) ==
    /\ chanPc[c] = "seed"
    /\ chanPc' = [chanPc EXCEPT ![c] = "fetch"]
    /\ UNCHANGED <<top, last_message_id, messages, analyses, last_local, batch, task,
                   semaphore, poison, nonPollVars, fetchedEver, anWritten>>

\* get_new_messages returned a non-empty list: one task per message is created.
Fetch(c) ==
    /\ chanPc[c] = "fetch"
    /\ LET msgs == get_new_messages(c, last_local[c]) IN
        /\ msgs # <<>>
        /\ batch' = [batch EXCEPT ![c] = msgs]
        /\ task' = [task EXCEPT ![c] =
                      [i \in Ids |-> IF i \in Range(msgs) THEN NewTask ELSE NoTask]]
        /\ fetchedEver' = fetchedEver \cup {<<c, i>> : i \in Range(msgs)}
    /\ chanPc' = [chanPc EXCEPT ![c] = "gather"]
    /\ UNCHANGED <<top, last_message_id, messages, analyses, last_local, semaphore, poison, nonPollVars, anWritten>>

\* get_new_messages returned [] (nothing new, or an exception it caught).
FetchEmpty(c) ==
    /\ chanPc[c] = "fetch"
    /\ chanPc' = [chanPc EXCEPT ![c] = "done"]
    /\ UNCHANGED <<top, last_message_id, messages, analyses, last_local, batch, task,
                   semaphore, poison, nonPollVars, fetchedEver, anWritten>>

\* ------------------------------------------------ _process_single_message
\* the task's return: the semaphore slot is released on the way out
Return(c, i, res) ==
    /\ task' = [task EXCEPT ![c][i] = [pc |-> "done", result |-> res]]
    /\ semaphore' = semaphore + 1

\* async with self.semaphore
Acquire(c, i) ==
    /\ chanPc[c] = "gather"
    /\ task[c][i].pc = "wait"
    /\ semaphore > 0
    /\ semaphore' = semaphore - 1
    /\ task' = [task EXCEPT ![c][i].pc = "analyze"]
    /\ UNCHANGED <<top, last_message_id, messages, analyses, chanPc, last_local, batch,
                   poison, nonPollVars, fetchedEver, anWritten>>

\* (mutant) the notification is sent as soon as the analysis is there, before
\* the message and the analysis are stored
AnalyzeOkThenNotify(c, i) ==
    /\ task[c][i].pc = "analyze"
    /\ <<c, i>> \notin poison
    /\ task' = [task EXCEPT ![c][i].pc = "notify"]
    /\ UNCHANGED <<top, last_message_id, messages, analyses, chanPc, last_local, batch,
                   semaphore, poison, nonPollVars, fetchedEver, anWritten>>

\* analyze_message returned an analysis
AnalyzeOk(c, i) ==
    /\ task[c][i].pc = "analyze"
    /\ <<c, i>> \notin poison
    /\ task' = [task EXCEPT ![c][i].pc = "save_message"]
    /\ UNCHANGED <<top, last_message_id, messages, analyses, chanPc, last_local, batch,
                   semaphore, poison, nonPollVars, fetchedEver, anWritten>>

\* analyze_message returned None (or raised): return False
AnalyzeFails(c, i) ==
    /\ task[c][i].pc = "analyze"
    /\ Return(c, i, "False")
    /\ UNCHANGED <<top, last_message_id, messages, analyses, chanPc, last_local, batch,
                   poison, nonPollVars, fetchedEver, anWritten>>

\* data_manager.save_message: insert if absent
SaveMessage(c, i) ==
    /\ task[c][i].pc = "save_message"
    /\ messages' = messages \cup {<<c, i>>}
    /\ task' = [task EXCEPT ![c][i].pc = "save_analysis"]
    /\ UNCHANGED <<top, last_message_id, analyses, chanPc, last_local, batch, semaphore, poison, nonPollVars, fetchedEver, anWritten>>

SaveMessageRaises(c, i) ==
    /\ task[c][i].pc = "save_message"
    /\ Return(c, i, "False")
    /\ UNCHANGED <<top, last_message_id, messages, analyses, chanPc, last_local, batch,
                   poison, nonPollVars, fetchedEver, anWritten>>

\* data_manager.save_analysis(message["id"], ...): upsert keyed by message id
SaveAnalysis(c, i) ==
    /\ task[c][i].pc = "save_analysis"
    /\ analyses' = [analyses EXCEPT ![i] = c]
    /\ anWritten' = anWritten \cup {<<c, i>>}
    /\ task' = [task EXCEPT ![c][i].pc = "notify"]
    /\ UNCHANGED <<top, last_message_id, messages, chanPc, last_local, batch, semaphore, poison, nonPollVars, fetchedEver>>

SaveAnalysisRaises(c, i) ==
    /\ task[c][i].pc = "save_analysis"
    /\ Return(c, i, "False")
    /\ UNCHANGED <<top, last_message_id, messages, analyses, chanPc, last_local, batch,
                   poison, nonPollVars, fetchedEver, anWritten>>

\* send_analysis_result returned: return True. A send that failed for one
\* subscriber was caught inside _send_single_notification.
NotifyReturns(c, i) ==
    /\ task[c][i].pc = "notify"
    /\ \E why \in {"none", "send_failed"} : Return(c, i, "True")
    /\ UNCHANGED <<top, last_message_id, messages, analyses, chanPc, last_local, batch,
                   poison, nonPollVars, fetchedEver, anWritten>>

\* send_analysis_result raised (_send_batch does not catch an exception of
\* the subscriber lookup): the except of _process_single_message returns False.
NotifyRaises(c, i) ==
    /\ task[c][i].pc = "notify"
    /\ Return(c, i, "False")
    /\ UNCHANGED <<top, last_message_id, messages, analyses, chanPc, last_local, batch,
                   poison, nonPollVars, fetchedEver, anWritten>>

\* --------------------------------------- _process_channel after the gather
\* mutant: the gather ends with the first task that failed
FirstFailureEndsGather(c) ==
    \/ \A i \in Range(batch[c]) : task[c][i].pc = "done"
    \/ \E i \in Range(batch[c]) : task[c][i].result = "False"

\* asyncio.gather(*tasks, return_exceptions=True) returns when every task has
AllTasksDone(c) == \A i \in Range(batch[c]) : task[c][i].pc = "done"

\* failed == 0: set_last_message_id(channel_id, max_processed_id)
Advance(c) ==
    /\ chanPc[c] = "gather"
    /\ AllTasksDone(c)
    /\ Failed(c) = 0
    /\ last_message_id' = [last_message_id EXCEPT ![c] = MaxProcessedId(c)]
    /\ chanPc' = [chanPc EXCEPT ![c] = "done"]
    /\ UNCHANGED <<top, messages, analyses, last_local, batch, task, semaphore, poison, nonPollVars, fetchedEver, anWritten>>

\* (mutant) the exception of set_last_message_id is not absorbed by the cycle
\* of c: it ends the cycles of all channels
WriteRaiseEndsEveryCycle(c) ==
    /\ chanPc[c] = "gather"
    /\ AllTasksDone(c)
    /\ Failed(c) = 0
    /\ chanPc' = [o \in Chans |-> "error"]
    /\ UNCHANGED <<top, last_message_id, messages, analyses, last_local, batch, task,
                   semaphore, poison, nonPollVars, fetchedEver, anWritten>>

\* failed == 0 but set_last_message_id raises: the outer except ends the cycle.
AdvanceWriteRaises(c) ==
    /\ chanPc[c] = "gather"
    /\ AllTasksDone(c)
    /\ Failed(c) = 0
    /\ chanPc' = [chanPc EXCEPT ![c] = "error"]
    /\ UNCHANGED <<top, last_message_id, messages, analyses, last_local, batch, task,
                   semaphore, poison, nonPollVars, fetchedEver, anWritten>>

\* failed > 0: the cursor is not written.
KeepCursor(c) ==
    /\ chanPc[c] = "gather"
    /\ AllTasksDone(c)
    /\ Failed(c) > 0
    /\ chanPc' = [chanPc EXCEPT ![c] = "done"]
    /\ UNCHANGED <<top, last_message_id, messages, analyses, last_local, batch, task,
                   semaphore, poison, nonPollVars, fetchedEver, anWritten>>

\* ------------------------------------------------- MonitoringService.run
\* (mutant) a cycle that left through an exception is never over for run
FinishedOnlyOnReturn(c) == chanPc[c] = "done"

\* _process_channel returned ("done") or left through its except ("error")
Finished(c) == chanPc[c] \in {"done", "error"}

\* the gather over the channels returned; after the sleep the next cycle
\* starts one _process_channel per channel.
NextCycle ==
    /\ \A c \in Chans : Finished(c)
    /\ chanPc' = [c \in Chans |-> "start"]
    /\ last_local' = [c \in Chans |-> None]
    /\ batch' = [c \in Chans |-> <<>>]
    /\ task' = [c \in Chans |-> [i \in Ids |-> NoTask]]
    /\ UNCHANGED <<top, last_message_id, messages, analyses, semaphore, poison, nonPollVars,
                   fetchedEver, anWritten>>

ChannelStep(c) ==
    \/ GetCursor(c)
    \/ GetCursorRaises(c)
    \/ Seed(c)
    \/ SeedWriteRaises(c)
    \/ SeedReturnsZero(c)
    \/ Fetch(c)
    \/ FetchEmpty(c)
    \/ Advance(c)
    \/ AdvanceWriteRaises(c)
    \/ KeepCursor(c)

TaskStep(c, i) ==
    \/ Acquire(c, i)
    \/ AnalyzeOk(c, i)
    \/ AnalyzeFails(c, i)
    \/ SaveMessage(c, i)
    \/ SaveMessageRaises(c, i)
    \/ SaveAnalysis(c, i)
    \/ SaveAnalysisRaises(c, i)
    \/ NotifyReturns(c, i)
    \/ NotifyRaises(c, i)

ProgramNext ==
    \/ \E c \in Chans : ChannelStep(c)
    \/ \E c \in Chans : \E i \in Ids : TaskStep(c, i)
    \/ NextCycle

Next ==
    \/ ProgramNext
    \/ \E c \in Chans : Post(c)

Spec == Init /\ [][Next]_vars

\* the analyzer under calls from its callers, the chat and the clock
AnalyzerSpec == Init /\ [][AnalyzerNext]_vars

\* clean_and_validate_hashtags on every input of the model
CleanSpecInit ==
    /\ PollInit
    /\ poison = {}
    /\ AnalyzerInit
    /\ CleanInit
    /\ ResponseIdle
    /\ NotifierIdle
    /\ AuxIdle

CleanSpec == CleanSpecInit /\ [][Clean]_vars

\* the handling of every response of the model
ResponseSpecInit ==
    /\ PollInit
    /\ poison = {}
    /\ AnalyzerInit
    /\ CleanIdle
    /\ ResponseInit
    /\ NotifierIdle
    /\ AuxIdle

ResponseSpec == ResponseSpecInit /\ [][ResponseHandled]_vars

\* the notification manager under concurrent calls of send_analysis_result,
\* for every choice of the settings of the subscribers
NotifierSpecInit ==
    /\ PollInit
    /\ poison = {}
    /\ AnalyzerInit
    /\ CleanIdle
    /\ ResponseIdle
    /\ NotifierInit
    /\ AuxIdle

NotifierSpec == NotifierSpecInit /\ [][NotifierNext]_vars

\* the quiet hours check for every setting and time of the model
QuietSpecInit ==
    /\ BaseIdle
    /\ QuietInit
    /\ StoreIdle
    /\ LruIdle
    /\ RetryIdle

QuietSpec == QuietSpecInit /\ [][QuietChecked]_vars

\* the two tables under every sequence of calls of save_message and
\* save_analysis
StoreSpecInit ==
    /\ BaseIdle
    /\ QuietIdle
    /\ StoreIdle
    /\ LruIdle
    /\ RetryIdle

StoreSpec == StoreSpecInit /\ [][StoreNext]_vars

\* an LRUCacheWithTTL object under every sequence of get, put and clear
LruSpecInit ==
    /\ BaseIdle
    /\ QuietIdle
    /\ StoreIdle
    /\ LruInit
    /\ RetryIdle

LruSpec == LruSpecInit /\ [][LruNext]_vars

\* one call of a function wrapped by retry_with_backoff, under every
\* configuration and every outcome of the function
RetrySpecInit ==
    /\ BaseIdle
    /\ QuietIdle
    /\ StoreIdle
    /\ LruIdle
    /\ RetryInit

RetrySpec == RetrySpecInit /\ [][RetryNext]_vars

\* Id of the message of the first channel that the model never answers
\* parseably in FairSpec.
PoisonId == 2

\* The polling loop with one message of the first channel that the model
\* never answers parseably. The event loop runs every ready coroutine, so a
\* step of the program that stays enabled is eventually taken; nothing
\* obliges the channel to post.
PoisonInit ==
    /\ PollInit
    /\ poison = {<<"c1", PoisonId>>}
    /\ AnalyzerInit
    /\ CleanIdle
    /\ ResponseIdle
    /\ NotifierIdle
    /\ AuxIdle

FairSpec == PoisonInit /\ [][Next]_vars /\ WF_vars(ProgramNext)

\* ================================================================ claims
\* vocabulary of the claims, independent of the definitions of the model
BatchIds(c) == {batch[c][k] : k \in 1..Len(batch[c])}

AllSucceeded(c) == \A i \in BatchIds(c) : task[c][i].result = "True"

SomeFailed(c) == \E i \in BatchIds(c) : task[c][i].result = "False"

MaxOfBatch(c) == CHOOSE m \in BatchIds(c) : \A i \in BatchIds(c) : i <= m

\* the cycle of c fetched a non-empty batch and _process_channel has ended;
\* last_local[c] is then the cursor the cycle started with
BatchProcessed(c) == Finished(c) /\ batch[c] # <<>>

Persisted(c, i) == <<c, i>> \in messages /\ <<c, i>> \in anWritten

\* ---- C1
\* C1 as stated: after a non-empty batch the cursor is the maximum id of the
\* batch if and only if every message returned success, otherwise it has the
\* value it had before the cycle.
C1_AsStated ==
    \A c \in Chans : BatchProcessed(c) =>
        IF AllSucceeded(c)
        THEN last_message_id[c] = MaxOfBatch(c)
        ELSE last_message_id[c] = last_local[c]

\* C1 amended: after a non-empty batch the cursor is the maximum id of the
\* batch if and only if every message returned success and the write of the
\* cursor did not raise; in every other case it has the value it had before
\* the cycle. The state reached does not depend on the order in which the
\* tasks finished.
C1_CursorAfterBatch ==
    \A c \in Chans : BatchProcessed(c) =>
        IF AllSucceeded(c) /\ chanPc[c] = "done"
        THEN last_message_id[c] = MaxOfBatch(c) /\ last_message_id[c] > last_local[c]
        ELSE last_message_id[c] = last_local[c]

C1_Witness ==
    /\ chanPc["c1"] = "done"
    /\ Len(batch["c1"]) = 2
    /\ AllSucceeded("c1")
    /\ last_message_id["c1"] = batch["c1"][2]

\* ---- C2
\* C2: in every step the cursor of every channel does not decrease, and a
\* step that changes it is either the seeding of a cursor that was 0 or
\* writes the id of a message of the current batch whose task returned True
\* after its analysis was stored.
C2_CursorMonotone ==
    [][\A c \in Chans :
         /\ last_message_id'[c] >= last_message_id[c]
         /\ last_message_id'[c] # last_message_id[c] =>
              \/ chanPc[c] = "seed" /\ last_message_id[c] = 0
              \/ /\ last_message_id'[c] \in BatchIds(c)
                 /\ task[c][last_message_id'[c]].result = "True"
                 /\ Persisted(c, last_message_id'[c])]_vars

C2_Witness ==
    /\ chanPc["c1"] = "done"
    /\ batch["c1"] # <<>>
    /\ last_local["c1"] > 0
    /\ last_message_id["c1"] > last_local["c1"]

\* ---- C3
\* C3 as stated: a step that moves the cursor of a channel to or past the id
\* of a message that get_new_messages has returned happens only when that
\* message's row and analysis are in the store.
C3_AsStated ==
    [][\A c \in Chans : \A i \in Ids :
         (/\ <<c, i>> \in fetchedEver
          /\ last_message_id[c] < i
          /\ last_message_id'[c] >= i) => Persisted(c, i)]_vars

\* ---- C4
\* C4 as stated: the batch get_new_messages returned holds only ids above the
\* cursor, ascending, at most a page, and it is the lowest pending ids: the
\* k-th message of the batch is the k-th id after the cursor.
C4_AsStated ==
    \A c \in Chans : chanPc[c] = "gather" =>
        /\ Len(batch[c]) <= TELETHON_MESSAGE_LIMIT
        /\ \A k \in 1..Len(batch[c]) : batch[c][k] = last_local[c] + k

\* ---- C5
\* C5 as stated: a cycle that read the cursor as 0 processes no message of
\* the channel, also when the source reported no latest id.
C5_AsStated ==
    \A c \in Chans : last_local[c] = 0 => batch[c] = <<>>

\* ---- C6
\* C6: when a cycle of a channel ends with a failed message, every task of
\* the batch has run to its end, every message whose task returned True is
\* stored with its analysis, the cursor of the channel has the value it had
\* before the cycle, and the other channels are not held up: some step of
\* the program is enabled.
C6_FailureContained ==
    \A c \in Chans : (Finished(c) /\ SomeFailed(c)) =>
        /\ \A i \in BatchIds(c) : task[c][i].pc = "done"
        /\ \A i \in BatchIds(c) : task[c][i].result = "True" => Persisted(c, i)
        /\ last_message_id[c] = last_local[c]
        /\ ENABLED ProgramNext

C6_Witness ==
    /\ Finished("c1")
    /\ Len(batch["c1"]) = 2
    /\ task["c1"][batch["c1"][1]].result = "False"
    /\ task["c1"][batch["c1"][2]].result = "True"
    /\ Persisted("c1", batch["c1"][2])
    /\ chanPc["c2"] = "gather"

\* ---- C7
HasPoison(c) == \E i \in BatchIds(c) : <<c, i>> \in poison

\* a state that shows a failure other than the analysis of that message: the
\* store raised, the source returned nothing although it holds messages, or
\* a message that can be analysed returned False
Disturbed ==
    \/ \E c \in Chans : chanPc[c] = "error"
    \/ \E c \in Chans : chanPc[c] = "fetch" /\ last_local[c] = 0 /\ top[c] > 0
    \/ \E c \in Chans : /\ chanPc[c] = "done"
                          /\ batch[c] = <<>>
                          /\ last_local[c] # None
                          /\ last_local[c] < top[c]
    \/ \E c \in Chans : \E i \in BatchIds(c) :
          task[c][i].result = "False" /\ <<c, i>> \notin poison

\* C7 as stated: when a cycle ends whose batch held a message that never
\* analyses and a message s that was processed with success, the cursor of
\* the channel eventually reaches s, unless something else fails.
C7_AsStated ==
    \A c \in Chans : \A s \in Ids :
        (Finished(c) /\ HasPoison(c) /\ s \in BatchIds(c) /\ task[c][s].result = "True")
            ~> (last_message_id[c] >= s \/ Disturbed)

\* C7 amended: a message that never analyses fails alone, its siblings run
\* to their end and those that returned True are stored, but every cycle
\* whose batch holds it leaves the cursor of the channel at the value it had
\* before the cycle, so the same messages are fetched again.
C7_PoisonKeepsCursor ==
    \A c \in Chans : (Finished(c) /\ HasPoison(c)) =>
        /\ \A i \in BatchIds(c) :
             /\ task[c][i].pc = "done"
             /\ <<c, i>> \in poison => task[c][i].result = "False"
             /\ task[c][i].result = "True" => Persisted(c, i)
        /\ last_message_id[c] = last_local[c]

C7_Witness ==
    /\ Finished("c1")
    /\ last_local["c1"] > 0
    /\ \E i, s \in BatchIds("c1") :
        /\ <<"c1", i>> \in poison
        /\ task["c1"][i].result = "False"
        /\ task["c1"][s].result = "True"
        /\ Persisted("c1", s)

\* ---- C8
\* C8 as stated: a task that has stored the message and its analysis and is
\* in the dispatch of the notification returns True however the dispatch ends.
C8_AsStated ==
    [][\A c \in Chans : \A i \in Ids :
         (task[c][i].pc = "notify" /\ task'[c][i].pc = "done") =>
             task'[c][i].result = "True"]_vars

\* ---- C9
\* the call of k has returned and followed a completed call with the same
\* text that consulted the model, with no eviction, expiry or clear of the
\* entry of the text between the two
SecondOfTwo(k) ==
    /\ caller[k].pc = "done"
    /\ caller[k].prior.result # "no_call"
    /\ caller[k].prior.invoked = 1

\* C9 as stated: of two calls in sequence with the same text, with no
\* eviction or expiry between them, exactly one invokes the model for the
\* analysis, and both return the same Analysis.
C9_AsStated ==
    \A k \in Callers : SecondOfTwo(k) =>
        /\ caller[k].prior.invoked + caller[k].invoked = 1
        /\ caller[k].result \in Analyses
        /\ caller[k].result = caller[k].prior.result

\* C9 amended: when the first of two calls in sequence with the same text
\* returned an Analysis, and its entry was not evicted, expired or cleared
\* between them, the second call does not invoke the model and returns the
\* same Analysis, so that the model is invoked exactly once for the pair.
C9_SecondCallFromCache ==
    \A k \in Callers : (SecondOfTwo(k) /\ caller[k].prior.result \in Analyses) =>
        /\ caller[k].prior.invoked + caller[k].invoked = 1
        /\ caller[k].result = caller[k].prior.result

C9_Witness ==
    \E k \in Callers :
        /\ SecondOfTwo(k)
        /\ caller[k].prior.result \in Analyses
        /\ caller[k].invoked = 0
        /\ caller[k].result = caller[k].prior.result

\* ---- C10
\* number of entries of the cache under the key of the text
EntriesFor(text) ==
    Cardinality({i \in 1..Len(analysis_cache) : analysis_cache[i].key = md5(text)})

\* C10 as stated: when two calls with the same text that were in flight
\* together have both returned, either at most one of them invoked the model,
\* or the cache holds exactly one entry for the text and both returned the
\* same Analysis.
C10_AsStated ==
    \A j, k \in Callers :
        (/\ j # k
         /\ caller[j].pc = "done" /\ caller[k].pc = "done"
         /\ concurrent[j] /\ concurrent[k]
         /\ caller[j].text = caller[k].text) =>
            \/ caller[j].invoked + caller[k].invoked <= 1
            \/ /\ EntriesFor(caller[j].text) = 1
               /\ caller[j].result \in Analyses
               /\ caller[j].result = caller[k].result

\* ---- C11
\* requests of the analyzer that the LLM service has not yet answered:
\* analysis requests, test requests of the model check and chat streams
LLMCallsInFlight ==
    Cardinality({k \in Callers : caller[k].pc \in {"invoke", "test_call"}})
        + (IF chat \in {"stream", "test_call"} THEN 1 ELSE 0)

\* C11 as stated: at no time are more than max_concurrent_requests requests
\* to the LLM service in flight, counting analysis requests, the test
\* request of the first-use model check and chat requests.
C11_AsStated == LLMCallsInFlight <= MAX_CONCURRENT_REQUESTS

\* ---- C12
\* the response is a JSON object (a dict, or a str that holds one) with the
\* three keys
HasAllKeys(raw) == raw.shape \in {"dict", "str_object"} /\ raw.keys = Keys

\* C12 as stated: for a response that is not a JSON object with the three
\* keys analyze_message returns None and puts nothing into the cache, and an
\* analysis that is returned or cached has the summary and the sentiment of
\* the response.
C12_AsStated ==
    returned.kind # "pending" =>
        /\ ~HasAllKeys(response_raw) =>
              returned.kind = "None" /\ cache_put.kind = "None"
        /\ \A a \in {returned, cache_put} : a.kind = "NewsAnalysis" =>
              /\ a.summary = "summary of the model"
              /\ a.sentiment = response_raw.sentiment

\* ---- C13
\* C13 as stated: a call of analyze_message that reported failure after its
\* request to the LLM service failed has made max_attempts requests.
C13_AsStated ==
    \A k \in Callers :
        (caller[k].pc = "done" /\ caller[k].result = "None" /\ caller[k].invoked > 0)
            => caller[k].invoked = max_attempts

\* ---- C14
\* C14 as stated: the hashtags of a returned or cached analysis hold no tag
\* twice and at most MAX_HASHTAGS_IN_ANALYSIS tags.
C14_AsStated ==
    \A a \in {returned, cache_put} : a.kind = "NewsAnalysis" =>
        /\ \A i, j \in 1..Len(a.hashtags) : a.hashtags[i] = a.hashtags[j] => i = j
        /\ Len(a.hashtags) <= MAX_HASHTAGS_IN_ANALYSIS

\* ---- C15
\* C15 as stated: the sentiment of a returned or cached analysis is one of
\* the three permitted values.
C15_AsStated ==
    \A a \in {returned, cache_put} : a.kind = "NewsAnalysis" =>
        a.sentiment \in PermittedSentiments

\* ---- C16
\* C16 as stated: cleaning the output of clean_and_validate_hashtags again
\* gives the same list.
C16_AsStated ==
    Len(cleaned_hashtags) = 2 => cleaned_hashtags[2] = cleaned_hashtags[1]

\* ---- C17
\* a call of analyze_message by k finds no entry for its text: it takes or
\* waits for a slot of the semaphore to invoke the model
Misses(k) ==
    /\ caller[k].pc \notin {"acquire", "invoke"}
    /\ caller'[k].pc \in {"acquire", "invoke"}

\* text and other are different texts, both longer than the budget, that are
\* identical once truncated
SameOnceTruncated(text, other) ==
    /\ text # other
    /\ Len(text) > MAX_TEXT_LENGTH_FOR_ANALYSIS
    /\ Len(other) > MAX_TEXT_LENGTH_FOR_ANALYSIS
    /\ _get_optimized_prompt(text) = _get_optimized_prompt(other)

\* C17 as stated: while the cache holds an unexpired entry made for a text,
\* a call for another text that is identical once truncated is a hit, it
\* does not go on to invoke the model.
C17_AsStated ==
    [][\A k \in Callers : \A other \in Texts :
          (Misses(k) /\ SameOnceTruncated(caller'[k].text, other))
              => ~GetHits(_get_cache_key(other))]_vars

\* ---- C18
\* the calls of bot.send_message of dispatch t to subscriber user with the
\* notifications of group number g
Attempts(t, g, user) ==
    {e \in sends : /\ e.dispatch = t.id
                   /\ e.user = user
                   /\ e.notifications =
                         {t.groups[g][i].message_link : i \in 1..Len(t.groups[g])}}

\* subscriber user is not filtered out of group number g of dispatch t
Unfiltered(t, g, user) ==
    \/ Len(t.groups[g]) > 1
    \/ should_send_notification(user, t.groups[g][1].sentiment, <<>>)

\* C18 as stated: when a dispatch to the active subscribers is over, a
\* subscriber whose send failed with "bot was blocked" is inactive, every
\* subscriber that is not filtered out had exactly one delivery attempt for
\* each message of the dispatch, and every failed send of the last
\* message is counted in failed_sends.
C18_AsStated ==
    \A d \in Dispatchers :
        LET t == dispatch[d] IN
        (t.pc \in {"done", "raised"} /\ t.subscribers # <<>>) =>
            /\ \A g \in 1..Len(t.groups) : \A user \in Range(t.subscribers) :
                  /\ (\E e \in Attempts(t, g, user) : e.outcome = "blocked")
                        => ~is_active[user]
                  /\ Unfiltered(t, g, user) => Cardinality(Attempts(t, g, user)) = 1
            /\ t.failed_sends =
                  Cardinality({e \in UNION {Attempts(t, Len(t.groups), user) :
                                                user \in Range(t.subscribers)} :
                                  e.outcome # "ok"})

\* ---- C19
\* the settings of subscriber user exclude analysis: notifications are
\* disabled, or the sentiment filter names another sentiment
Excluded(user, analysis) ==
    \/ ~user_settings[user].notification_enabled
    \/ /\ user_settings[user].sentiment_filter # "all"
       /\ analysis.sentiment # sentiment_map[user_settings[user].sentiment_filter]

\* C19 as stated: no send is delivered to a subscriber for a result that
\* the subscriber's settings exclude, on the single and on the grouped path.
C19_AsStated ==
    \A e \in sends : \A id \in e.notifications :
        e.outcome = "ok" => ~Excluded(e.user, results[id])

\* ---- C20
\* the hashtag filters of subscriber user have no overlap with the hashtags
\* of analysis
NoOverlap(user, analysis) ==
    /\ user_settings[user].hashtag_filters # <<>>
    /\ Range(user_settings[user].hashtag_filters) \cap Range(analysis.hashtags) = {}

\* C20 as stated: _send_single_notification sends no result of the polling
\* loop to a subscriber whose hashtag filters have no overlap with the
\* hashtags of the result.
C20_AsStated ==
    \A e \in sends : \A id \in e.notifications :
        e.path = "single" => ~NoOverlap(e.user, results[id])

\* ---- C21
\* the time of the clock lies inside the quiet window, also when the window
\* spans midnight
InsideWindow ==
    LET start_time == strptime(quiet_hours_start)
        end_time == strptime(quiet_hours_end)
    IN IF TimeLeq(start_time, end_time)
       THEN TimeLeq(start_time, clock) /\ TimeLeq(clock, end_time)
       ELSE TimeLeq(start_time, clock) \/ TimeLeq(clock, end_time)

\* C21 as stated: a subscriber with quiet hours is skipped exactly when the
\* time of day lies inside the quiet window, also for a window that spans
\* midnight.
C21_AsStated ==
    (quiet # "pending" /\ quiet_hours_start # <<>> /\ quiet_hours_end # <<>>)
        => (quiet = "skip" <=> InsideWindow)

\* ---- C22
\* C22: a step in which the store raises in the cycle of a channel (reading
\* the cursor, seeding, writing the cursor) writes no cursor and leaves the
\* cycles of the other channels as they are; the abandoned cycle takes no
\* further step and keeps its cursor, and its next step is the start of the
\* next cycle, in which every channel is polled again.
C22_StoreFailureContained ==
    [][\A c \in Chans :
          /\ (chanPc[c] # "error" /\ chanPc'[c] = "error") =>
                /\ last_message_id' = last_message_id
                /\ \A o \in Chans \ {c} :
                      /\ chanPc'[o] = chanPc[o]
                      /\ batch'[o] = batch[o]
                      /\ task'[o] = task[o]
          /\ chanPc[c] = "error" =>
                /\ last_message_id'[c] = last_message_id[c]
                /\ task'[c] = task[c] \/ chanPc'[c] = "start"
                /\ chanPc'[c] \in {"error", "start"}
                /\ chanPc'[c] = "start" =>
                      \A o \in Chans : chanPc[o] \in {"done", "error"} /\ chanPc'[o] = "start"
      ]_vars

\* the write of the cursor raised after a batch of the first channel whose
\* messages all succeeded, and the second channel ended its cycle with a
\* cursor
C22_Witness ==
    /\ chanPc["c1"] = "error"
    /\ batch["c1"] # <<>>
    /\ last_message_id["c1"] < MaxOfBatch("c1")
    /\ chanPc["c2"] = "done"
    /\ last_message_id["c2"] > 0

\* ---- C23
\* C23: whatever fails, again and again every channel has ended its cycle
\* and a new cycle starts in which every channel is polled.
C23_CyclesForever ==
    /\ []<>(\A c \in Chans : chanPc[c] \in {"done", "error"})
    /\ []<>(\A c \in Chans : chanPc[c] = "start")

\* a new cycle starts after a cycle in which the message that the model
\* never answers was fetched and the cursor of the second channel could
\* not be read or written
C23_Witness ==
    /\ \A c \in Chans : chanPc[c] = "start"
    /\ <<"c1", PoisonId>> \in fetchedEver
    /\ last_message_id["c2"] = 0
    /\ top["c2"] > 0

\* ---- C24
\* the rows of a table for a key
MessageRowsOf(table, channel_id, message_id) ==
    {row \in table : row.channel_id = channel_id /\ row.message_id = message_id}

AnalysisRowsOf(table, message_id) == {row \in table : row.message_id = message_id}

\* C24: a call of save_message leaves every stored row as it is and adds
\* the row of the message if its key was absent; a call of save_analysis
\* leaves one row for the message id, made of the summary, sentiment and
\* hashtags of the call, and the rows of the other ids as they are; a call
\* that repeats the last call changes neither table.
C24_WritesIdempotent ==
    [][/\ messages_rows \subseteq messages_rows'
       /\ last_call'.op = "save_message" =>
             /\ analyses_rows' = analyses_rows
             /\ LET m == last_call'.message IN
                /\ Cardinality(MessageRowsOf(messages_rows', m.channel_id, m.id)) = 1
                /\ MessageRowsOf(messages_rows, m.channel_id, m.id) = {} =>
                      \E row \in messages_rows' \ messages_rows : row.text = m.text
                /\ Cardinality(messages_rows' \ messages_rows) <= 1
       /\ last_call'.op = "save_analysis" =>
             /\ messages_rows' = messages_rows
             /\ LET id == last_call'.message_id
                    a == last_call'.analysis
                IN /\ AnalysisRowsOf(analyses_rows', id) =
                         {[message_id |-> id, summary |-> a.summary,
                           sentiment |-> a.sentiment,
                           hashtags |-> <<"[">> \o a.hashtags \o <<"]">>]}
                   /\ \A other \in {1, 2} \ {id} :
                         AnalysisRowsOf(analyses_rows', other)
                             = AnalysisRowsOf(analyses_rows, other)
       /\ last_call' = last_call =>
             messages_rows' = messages_rows /\ analyses_rows' = analyses_rows
      ]_vars

\* a message was saved again with an edited text and its row kept the first
\* text, and the analysis of a message was replaced by a later one
C24_Witness ==
    /\ last_call.op = "save_message"
    /\ \E row \in messages_rows :
          /\ row.channel_id = last_call.message.channel_id
          /\ row.message_id = last_call.message.id
          /\ row.text # last_call.message.text
    /\ \E row \in analyses_rows : row.summary = "summary 2" /\ row.hashtags = <<"[", "x", "]">>

\* ---- C25
\* C25: the task of a message reaches send_analysis_result from the write of
\* its analysis, which follows the write of its row, which follows the
\* return of an analysis; and the cursor of a channel is written after its
\* gather only when every task of the batch has ended.
C25_PersistThenNotify ==
    [][\A c \in Chans :
          /\ \A i \in Ids :
                /\ (task[c][i].pc # "notify" /\ task'[c][i].pc = "notify") =>
                      /\ task[c][i].pc = "save_analysis"
                      /\ <<c, i>> \in messages
                      /\ analyses'[i] = c
                /\ (task[c][i].pc # "save_analysis" /\ task'[c][i].pc = "save_analysis") =>
                      /\ task[c][i].pc = "save_message"
                      /\ <<c, i>> \in messages'
                /\ (task[c][i].pc # "save_message" /\ task'[c][i].pc = "save_message") =>
                      /\ task[c][i].pc = "analyze"
                      /\ <<c, i>> \notin poison
          /\ (chanPc[c] = "gather" /\ last_message_id'[c] # last_message_id[c]) =>
                \A i \in BatchIds(c) : task[c][i].pc = "done"
      ]_vars

\* a task is inside send_analysis_result with its row and its analysis in
\* the store, while another task of the batch has not ended
C25_Witness ==
    \E c \in Chans : \E i, j \in BatchIds(c) :
        /\ task[c][i].pc = "notify"
        /\ <<c, i>> \in messages
        /\ analyses[i] = c
        /\ task[c][j].pc \in {"wait", "analyze"}

\* ---- C30
\* C30 as stated: the analysis stored under the id of a persisted message
\* was computed from the text of that message, also when two channels hold
\* messages with the same id.
C30_AsStated ==
    \A c \in Chans : \A i \in Ids :
        (<<c, i>> \in messages /\ analyses[i] # "none") => analyses[i] = c

\* ---- C26
\* the key of the cache whose last use is the oldest
LeastRecentlyUsed ==
    recency[CHOOSE i \in 1..Len(recency) :
                /\ recency[i] \in CacheKeys(lru.cache)
                /\ \A j \in 1..(i - 1) : recency[j] \notin CacheKeys(lru.cache)]

\* C26: after every operation the cache holds at most max_size entries, one
\* for each of its keys, and the timestamp map has the keys of the cache; a
\* put of a new key into a full cache removes the key whose last use (a get
\* that returned it, or a put) is the oldest, and no other key.
C26_LruInvariants ==
    [][/\ Len(lru'.cache) <= lru'.max_size
       /\ Cardinality(CacheKeys(lru'.cache)) = Len(lru'.cache)
       /\ DOMAIN lru'.timestamps = CacheKeys(lru'.cache)
       /\ (/\ lru_last'.op = "put"
           /\ lru_last'.key \notin CacheKeys(lru.cache)
           /\ Len(lru.cache) = lru.max_size) =>
             CacheKeys(lru'.cache)
                 = (CacheKeys(lru.cache) \ {LeastRecentlyUsed}) \cup {lru_last'.key}
       /\ (/\ lru_last'.op = "put"
           /\ ~(lru_last'.key \notin CacheKeys(lru.cache) /\ Len(lru.cache) = lru.max_size)) =>
             CacheKeys(lru'.cache) = CacheKeys(lru.cache) \cup {lru_last'.key}
      ]_vars

\* a full cache of two entries whose older entry was returned by a get, so
\* that the put of a third key evicted the other one
C26_Witness ==
    /\ lru.max_size = 2
    /\ lru_last.op = "put"
    /\ recency = <<"k2", "k1", "k3">>
    /\ Len(lru.cache) = 2
    /\ lru.cache[1].key = "k1"
    /\ lru.cache[2].key = "k3"
    /\ lru.timestamps["k1"] < lru.timestamps["k3"]

\* ---- C27
\* C27: a get returns an entry only when it is in the cache and not older
\* than ttl_seconds; a get of an older entry returns None and removes it;
\* a get changes no timestamp; a put gives its key the timestamp of the
\* time of the put and changes no other timestamp; nothing else changes a
\* timestamp, so that the timestamp of an entry is the time of its last put.
C27_NoStaleEntry ==
    [][/\ lru_last'.op = "get" =>
             LET key == lru_last'.key IN
             /\ lru_last'.value # "None" =>
                   /\ key \in CacheKeys(lru.cache)
                   /\ lru_time - lru.timestamps[key] <= lru.ttl_seconds
                   /\ lru_last'.value = CacheEntry(lru.cache, key).value
             /\ (key \in CacheKeys(lru.cache)
                    /\ lru_time - lru.timestamps[key] > lru.ttl_seconds) =>
                   /\ lru_last'.value = "None"
                   /\ key \notin CacheKeys(lru'.cache)
             /\ \A k \in DOMAIN lru'.timestamps :
                   k \in DOMAIN lru.timestamps /\ lru'.timestamps[k] = lru.timestamps[k]
       /\ lru_last'.op = "put" =>
             /\ lru'.timestamps[lru_last'.key] = lru_time
             /\ \A k \in DOMAIN lru'.timestamps \ {lru_last'.key} :
                   k \in DOMAIN lru.timestamps /\ lru'.timestamps[k] = lru.timestamps[k]
       /\ lru_last'.op = "tick" => lru'.timestamps = lru.timestamps
      ]_vars

\* a get found an entry older than ttl_seconds: it returned None and the
\* entry is gone
C27_Witness ==
    /\ lru_last.op = "get"
    /\ lru_last.was_present
    /\ lru_last.value = "None"
    /\ lru_last.key \notin CacheKeys(lru.cache)
    /\ lru_last.key \in Range(recency)

\* ---- C28
\* the calls of the function so far that raised an exception of the
\* configured types
CaughtCalls ==
    {i \in 1..Len(func_calls) :
        /\ func_calls[i].kind = "raise"
        /\ func_calls[i].exception.type \in retry_exceptions}

\* C28: the function is called at most max_attempts times; every call but
\* the last raised an exception of the configured types; the wrapper slept
\* once before each retry, never longer than max_delay, and not after the
\* last call; it returns what the first call that does not raise returns,
\* and raises the exception of the last call after max_attempts calls that
\* raised (an exception of another type is passed on at once).
C28_RetryBounded ==
    /\ Len(func_calls) <= retry_config.max_attempts
    /\ \A i \in 1..(Len(func_calls) - 1) : i \in CaughtCalls
    /\ \A i \in 1..Len(sleeps) : sleeps[i] <= retry_config.max_delay
    /\ retry_pc = "call" => Len(sleeps) = Len(func_calls)
    /\ retry_pc = "sleep" => Len(sleeps) = Len(func_calls)
    /\ retry_pc = "done" =>
          LET last == func_calls[Len(func_calls)] IN
          /\ Len(sleeps) = Len(func_calls) - 1
          /\ last.kind = "return" => wrapper_outcome = last
          /\ last.kind = "raise" =>
                /\ wrapper_outcome = last
                /\ Len(func_calls) \in CaughtCalls =>
                      Len(func_calls) = retry_config.max_attempts

\* three calls raised, the wrapper slept twice, the second time for the
\* capped delay, and raised the exception of the third call
C28_Witness ==
    /\ retry_pc = "done"
    /\ retry_config.max_attempts = 3
    /\ ~retry_config.jitter
    /\ retry_config.base_delay * 2 > retry_config.max_delay
    /\ Len(func_calls) = 3
    /\ Len(sleeps) = 2
    /\ sleeps[2] = retry_config.max_delay
    /\ wrapper_outcome = [kind |-> "raise",
                           exception |-> [type |-> "ConnectionError", attempt |-> 2]]

\* ---- C29
\* the calls of bot.send_message that delivered notification id to
\* subscriber user, alone or inside a grouped message
Deliveries(id, user) ==
    {e \in sends : e.user = user /\ e.outcome = "ok" /\ id \in e.notifications}

\* C29 as stated: when every dispatch has ended and no send has failed,
\* every notification was delivered exactly once to every active
\* subscriber whose settings do not filter it out.
C29_AsStated ==
    (/\ \A d \in Dispatchers : dispatch[d].pc # "sending"
     /\ \A d \in Dispatchers : dispatch[d].pc # "raised"
     /\ \A e \in sends : e.outcome = "ok") =>
        \A id \in 1..Len(results) : \A user \in Users :
            (/\ is_active[user]
             /\ ~Excluded(user, results[id])
             /\ ~NoOverlap(user, results[id])) =>
                Cardinality(Deliveries(id, user)) = 1

====
